---- MODULE Spec2Model ----
(***************************************************************************)
(* Model of the knowledge-retrieval and tool-orchestration engine of       *)
(* agent-api (src/src/index.ts, src/src/types.ts, utils in                 *)
(* src/unnamed/part_000).                                                  *)
(*                                                                         *)
(* The specifications of the module:                                        *)
(*   SpecTurn - one /api/chat request at a time through chatWithBot: the   *)
(*              two-round completion protocol and the tool dispatcher,     *)
(*              with every list of tool calls;                             *)
(*   SpecChat - two /api/chat requests whose turns overlap: the session    *)
(*              store under interleaving;                                  *)
(*   SpecKB   - loadKnowledgeBase, the snapshot file and the file watcher; *)
(*   SpecLoad - run after run of loadKnowledgeBase over directories and    *)
(*              snapshot files that do not change;                         *)
(*   SpecChunk - chunkContent over texts of a few paragraphs;              *)
(*   SpecSearch - searchKB, semanticSearch and basicKeywordSearch over     *)
(*              restored stores;                                           *)
(*   SpecCosine - calculateCosineSimilarity over rounded numbers;          *)
(*   SpecContext - the proactive search of chatWithBot and the knowledge   *)
(*              it hands to the first completion;                          *)
(*   SpecExcerpt - extractRelevantExcerpt by the lengths of sentences;     *)
(*   SpecBooking - two /api/chat requests whose tool calls create and      *)
(*              cancel appointments on the calendar service;               *)
(*   SpecTurnLive, SpecLoadLive - SpecTurn and SpecLoad when every awaited *)
(*              call settles.                                              *)
(* Every await of the source is a step boundary: the code between two      *)
(* awaits runs atomically on the event loop and is one action.             *)
(***************************************************************************)
EXTENDS Integers, Sequences, FiniteSets, TLC

\* ------------------------------------------------------------------ bounds
\* turns started over a run
MaxTurns == 2
\* external changes of the source directory over a run
MaxChanges == 2
\* embedding requests that fail over a run
MaxEmbedFailures == 1
\* writes of the snapshot that fail over a run
MaxPersistFailures == 1
\* tool calls requested by one completion
MaxCalls == 2
\* answered turns already stored for the seeded session
SeedTurns == 6
\* the batchSize of a call of generateEmbeddingsForDocuments that passes one
SmallBatchSize == 2
\* paragraphs of a text handed to chunkContent
MaxParagraphs == 3
\* sentences of a content handed to extractRelevantExcerpt
MaxSentences == 4

\* the floating-point format of the similarity: bits of mantissa, bits below
\* 1.0 and binades above the lowest
MantissaBits == 4
FractionBits == 4
MaxShift == 6

\* ------------------------------------------------------- program constants
\* conversationHistory.slice(-10)
HistoryWindow == 10
\* document.content.length > 10000
ChunkThreshold == 10000
\* chunkContent(content, maxChunkLength = 2000)
MaxChunkLength == 2000
\* doc.content.substring(0, 8000)
EmbeddingInputLength == 8000
\* generateEmbeddingsForDocuments(openai, documents, batchSize = 20)
BatchSize == 20
\* "\n\n".length
SeparatorLength == 2

Null == "<null>"
Apology == "Sorry, I encountered an error processing your request."
SystemPrompt == "systemPrompt"

Sessions == {"s1", "s2"}
\* request slots of the HTTP server: two requests may be in flight together
Reqs == {1, 2}

\* semanticSearch keeps the results whose relevanceScore is above 20
RelevanceFloor == 20

\* const { query, maxResults = 3 } = args
DefaultMaxResults == 3

\* basicKeywordSearch: a keyword in the title counts 10
TitleWeight == 10

\* extractRelevantExcerpt: maxLength = 300, contextSize = 2, '...'
DefaultExcerptLength == 300
ContextSize == 2
EllipsisLength == 3

\* hours from a local time of 'America/Los_Angeles' to UTC
LosAngelesOffset == 8

\* ------------------------------------------------------------------ helpers
RECURSIVE Pow2(_)
Pow2(n) == IF n <= 0 THEN 1 ELSE 2 * Pow2(n - 1)

Min(a, b) == IF a < b THEN a ELSE b

IsPrefix(p, s) == Len(p) <= Len(s) /\ \A i \in 1..Len(p) : p[i] = s[i]

\* Array.prototype.slice(-n)
SliceLast(s, n) == IF Len(s) <= n THEN s ELSE SubSeq(s, Len(s) - n + 1, Len(s))

\* x || ""
OrEmpty(x) == IF x = Null THEN "" ELSE x

\* ----------------------------------------------------------------- messages
\* Message of types.ts, with the tool_calls field index.ts adds to one literal
Msg(role, content) ==
    [role |-> role, content |-> content, tool_call_id |-> Null, tool_calls |-> <<>>]

ToolMsg(id, content) ==
    [role |-> "tool", content |-> content, tool_call_id |-> id, tool_calls |-> <<>>]

AssistantToolCallsMsg(content, calls) ==
    [role |-> "assistant", content |-> content, tool_call_id |-> Null, tool_calls |-> calls]

\* convertToOpenAIMessage: does it throw on this message
ConvertThrows(m) ==
    \/ m.role \notin {"system", "user", "assistant", "tool"}
    \/ m.role = "tool" /\ m.tool_call_id \in {Null, ""}

\* convertToOpenAIMessage: the ChatCompletionMessageParam it returns; only a
\* tool message keeps its tool_call_id and no message keeps tool_calls
ConvertToOpenAIMessage(m) ==
    IF m.role = "tool"
    THEN [role |-> "tool", content |-> m.content, tool_call_id |-> m.tool_call_id]
    ELSE [role |-> m.role, content |-> m.content, tool_call_id |-> Null]

ConvertAll(ms) == [i \in 1..Len(ms) |-> ConvertToOpenAIMessage(ms[i])]

AnyConvertThrows(ms) == \E i \in 1..Len(ms) : ConvertThrows(ms[i])

\* ------------------------------------------------------------- the inputs
UserMessages == {"hello", "what is the policy?"}

\* userMessage.includes("?") || /what|how|...|policy|.../i.test(userMessage)
LooksInformational(m) == m \in {"what is the policy?"}

\* relevantInfo after the proactive search: empty when the search threw or
\* found nothing
RelevantInfos == {"", "kbinfo"}

\* the names a completion may ask for: a registered one and an unregistered one
ToolNames == {"checkAvailability", "unknownTool"}
Registered == {"searchKnowledgeBase", "getDocumentContent", "checkAvailability",
               "createAppointment", "cancelAppointment", "listUpcomingAppointments"}

\* argument strings of a tool call: one that is JSON and one that is not
ArgStrings == {"{}", "{bad"}

CallIdOf(i) == IF i = 1 THEN "call_1" ELSE IF i = 2 THEN "call_2" ELSE "call_3"
CallIds == {CallIdOf(i) : i \in 1..MaxCalls}

\* the arguments are parsed before the name is looked at: one name is enough
\* for the arguments that do not parse
ToolCall ==
    {c \in [id : CallIds, name : ToolNames, arguments : ArgStrings] :
        c.arguments = "{bad" => c.name = "checkAvailability"}

\* tool_calls of a response: absent (<<>>) or a list of calls with distinct ids
ToolCallLists ==
    UNION {{cs \in [1..n -> ToolCall] :
               \A i, j \in 1..n : i # j => cs[i].id # cs[j].id} : n \in 1..MaxCalls}

\* the lists of one call
SingleCallLists ==
    {cs \in ToolCallLists : Len(cs) = 1 /\ cs[1].id = CallIdOf(1)}

\* content of a completion: null or text
FirstContents == {Null, "a1"}
SecondContents == {Null, "a2"}

\* the argument strings of createAppointment and cancelAppointment calls
AppointmentArguments ==
    {"{start:9,end:11}", "{start:9Z,end:11Z}", "{start:10Z,end:12Z}"}
CancelArguments == {"{eventId:ev1}"}

\* a date-time string: its hour and whether it ends with 'Z'
DateTime(hour, zulu) == [hour |-> hour, zulu |-> zulu]

\* JSON.parse of an argument string of createAppointment, with
\* calendarId = 'primary' when the string has none
AppointmentArgs(s) ==
    CASE s = "{start:9,end:11}" ->
             [startDateTime |-> DateTime(9, FALSE), endDateTime |-> DateTime(11, FALSE),
              calendarId |-> "primary"]
      [] s = "{start:9Z,end:11Z}" ->
             [startDateTime |-> DateTime(9, TRUE), endDateTime |-> DateTime(11, TRUE),
              calendarId |-> "primary"]
      [] s = "{start:10Z,end:12Z}" ->
             [startDateTime |-> DateTime(10, TRUE), endDateTime |-> DateTime(12, TRUE),
              calendarId |-> "primary"]

\* JSON.parse of an argument string of cancelAppointment
CancelArgs(s) == [eventId |-> "ev1", calendarId |-> "primary"]

\* the tool calls of a turn that books or cancels
BookingCallLists ==
    {<<[id |-> CallIdOf(1), name |-> "createAppointment", arguments |-> a]>> :
        a \in AppointmentArguments}
      \cup {<<[id |-> CallIdOf(1), name |-> "cancelAppointment", arguments |-> a]>> :
                a \in CancelArguments}

\* JSON.parse: does it throw
JsonParseThrows(s) == s \notin {"{}"} \cup AppointmentArguments \cup CancelArguments

\* JSON.stringify of a handler's value and of {error: message}
Serialize(v) == "json:" \o v
SerializeError(message) == "json:{error:" \o message \o "}"

\* callFunction: what a call of the named function can do
CallOutcomes(name) ==
    IF name \in Registered
    THEN {[threw |-> FALSE, value |-> "result"],
          [threw |-> TRUE, value |-> "Failed to check availability"]}
    ELSE {[threw |-> TRUE, value |-> "Function " \o name \o " not implemented"]}

\* ------------------------------------------------------- knowledge: the data
\* A text is the sequence of its paragraphs: tag names the characters of a
\* paragraph, len is their number and gap is the length of the separator
\* (/\n\s*\n/) that precedes the paragraph in the text; the gap of the first
\* paragraph is not part of the text.
ParaAfter(gap, tag, len) == [tag |-> tag, len |-> len, gap |-> gap]

\* a paragraph that follows a "\n\n"
Para(tag, len) == ParaAfter(SeparatorLength, tag, len)

RECURSIVE SumGap(_)
SumGap(ps) == IF ps = <<>> THEN 0 ELSE Head(ps).gap + SumGap(Tail(ps))

RECURSIVE SumLen(_)
SumLen(ps) == IF ps = <<>> THEN 0 ELSE Head(ps).len + SumLen(Tail(ps))

\* content.length
TextLength(ps) == IF ps = <<>> THEN 0 ELSE SumLen(ps) + SumGap(Tail(ps))

\* a loop that assigns the paragraph where it should append it
AddParagraphReplaces(current, p) == <<[p EXCEPT !.gap = SeparatorLength]>>

\* currentChunk + (currentChunk ? "\n\n" : "") + paragraph
AddParagraph(current, p) ==
    IF TextLength(current) = 0
    THEN <<[p EXCEPT !.gap = SeparatorLength]>>
    ELSE Append(current, [p EXCEPT !.gap = SeparatorLength])

\* the loop of chunkContent over paragraphs[i..], with chunks and currentChunk
RECURSIVE ChunkLoop(_, _, _, _, _)
ChunkLoop(ps, i, chunks, current, maxLen) ==
    IF i > Len(ps)
    THEN IF TextLength(current) > 0 THEN Append(chunks, current) ELSE chunks
    ELSE IF TextLength(current) + ps[i].len > maxLen /\ TextLength(current) > 0
         THEN ChunkLoop(ps, i + 1, Append(chunks, current), AddParagraph(<<>>, ps[i]), maxLen)
         ELSE ChunkLoop(ps, i + 1, chunks, AddParagraph(current, ps[i]), maxLen)

\* chunkContent(content, maxChunkLength)
ChunkContent(content, maxLen) ==
    IF TextLength(content) <= maxLen
    THEN <<content>>
    ELSE ChunkLoop(content, 1, <<>>, <<>>, maxLen)

\* content.substring(0, n)
RECURSIVE Substring(_, _)
Substring(ps, n) ==
    IF ps = <<>> \/ n <= 0 THEN <<>>
    ELSE IF Head(ps).len >= n THEN <<[Head(ps) EXCEPT !.len = n]>>
    ELSE IF Len(ps) = 1 THEN ps
    ELSE <<Head(ps)>> \o Substring(Tail(ps), n - Head(ps).len - ps[2].gap)

NoEmbedding == <<>>

\* metadata of a KnowledgeDocument: the fields of the source file's own
\* metadata (extra), parentId and chunkIndex of a chunk, the embedding
Metadata(extra, parentId, chunkIndex) ==
    [extra |-> extra, parentId |-> parentId, chunkIndex |-> chunkIndex,
     embedding |-> NoEmbedding]

Document(id, title, content, metadata) ==
    [id |-> id, title |-> title, content |-> content, metadata |-> metadata]

\* the directory
FileNames == {"a.md", "b.json"}
SnapshotName == "vector-store.json"

\* fs.readdir: the order of the listing
ListingOrder == <<"a.md", "b.json", "vector-store.json">>

\* file.endsWith('.md') || file.endsWith('.txt') || file.endsWith('.json')
HasContentExtension(file) == file \in {"a.md", "b.json", "vector-store.json"}

\* file.endsWith('.json')
IsJsonFile(file) == file \in {"b.json", "vector-store.json"}

\* file.replace(/\.(md|txt|json)$/, '')
StripExtension(file) ==
    IF file = "a.md" THEN "a" ELSE IF file = "b.json" THEN "b" ELSE "vector-store"

\* A file is its text and what JSON.parse makes of the text.
NotJson == [ok |-> FALSE, title |-> "", content |-> <<>>, metadata |-> ""]

ShortText == [text |-> <<Para("short", 300)>>, json |-> NotJson]
LongText == [text |-> <<Para("p1", 6000), Para("p2", 5000)>>, json |-> NotJson]
JsonDoc ==
    [text |-> <<Para("jsontext", 400)>>,
     json |-> [ok |-> TRUE, title |-> "Policies", content |-> <<Para("policies", 200)>>,
               metadata |-> "category"]]
BrokenJson == [text |-> <<Para("broken", 100)>>, json |-> NotJson]

\* a text of four paragraphs, each a chunk of its own
LongerText ==
    [text |-> <<Para("q1", 3000), Para("q2", 3000), Para("q3", 3000), Para("q4", 2000)>>,
     json |-> NotJson]

ContentsOf(file) == IF file = "a.md" THEN {ShortText, LongText} ELSE {JsonDoc, BrokenJson}

\* the documents one source file becomes: lines 533-573 of loadKnowledgeBase
DocumentsOfFile(file, c) ==
    LET useJson == IsJsonFile(file) /\ c.json.ok
        content == IF useJson /\ c.json.content # <<>> THEN c.json.content ELSE c.text
        extra == IF useJson THEN c.json.metadata ELSE ""
        title == IF useJson /\ c.json.title # "" THEN c.json.title ELSE StripExtension(file)
        chunks == ChunkContent(content, MaxChunkLength)
    IN  IF TextLength(content) > ChunkThreshold
        THEN [k \in 1..Len(chunks) |->
                 Document(file \o "-chunk-" \o ToString(k - 1),
                          title \o " - Part " \o ToString(k),
                          chunks[k],
                          Metadata(extra, file, k - 1))]
        ELSE <<Document(file, title, content, Metadata(extra, Null, -1))>>

\* the vector the embedding service returns for title + "\n\n" + content.substring(0, 8000)
EmbeddingOf(doc) == <<doc.title, Substring(doc.content, EmbeddingInputLength)>>

\* documents.findIndex(d => d.id === id)
RECURSIVE FindIndexFrom(_, _, _)
FindIndexFrom(docs, id, i) ==
    IF i > Len(docs) THEN 0
    ELSE IF docs[i].id = id THEN i ELSE FindIndexFrom(docs, id, i + 1)

FindIndex(docs, id) == FindIndexFrom(docs, id, 1)

\* a vector store whose entries of chunks name the parent document
VectorEntriesOfParents(docs) ==
    LET withEmbedding == SelectSeq(docs, LAMBDA d : d.metadata.embedding # NoEmbedding)
    IN  [i \in 1..Len(withEmbedding) |->
            [documentId |-> IF withEmbedding[i].metadata.parentId # Null
                            THEN withEmbedding[i].metadata.parentId
                            ELSE withEmbedding[i].id,
             embedding |-> withEmbedding[i].metadata.embedding]]

\* knowledgeBase.filter(doc => doc.metadata?.embedding).map(...)
VectorEntriesOf(docs) ==
    LET withEmbedding == SelectSeq(docs, LAMBDA d : d.metadata.embedding # NoEmbedding)
    IN  [i \in 1..Len(withEmbedding) |->
            [documentId |-> withEmbedding[i].id,
             embedding |-> withEmbedding[i].metadata.embedding]]

\* vector-store.json: whether the file exists, whether its text is JSON, the
\* fields of the object it holds and the values of the two fields that are read
NoSnapshot ==
    [exists |-> FALSE, parses |-> FALSE, fields |-> {},
     knowledgeBase |-> <<>>, vectorStore |-> <<>>]

\* a file whose text is not JSON
UnparsableSnapshot == [NoSnapshot EXCEPT !.exists = TRUE]

\* a file holding an object without the field vectorStore
FieldlessSnapshot ==
    [NoSnapshot EXCEPT !.exists = TRUE, !.parses = TRUE,
                       !.fields = {"knowledgeBase", "timestamp"}]

\* a snapshot that leaves the embeddings out of the documents
SnapshotTextWithoutEmbeddings(docs, entries) ==
    [exists |-> TRUE, parses |-> TRUE,
     fields |-> {"knowledgeBase", "vectorStore", "timestamp"},
     knowledgeBase |-> [i \in 1..Len(docs) |->
                           [docs[i] EXCEPT !.metadata.embedding = <<>>]],
     vectorStore |-> entries]

\* JSON.stringify({knowledgeBase: documents, vectorStore, timestamp})
SnapshotText(docs, entries) ==
    [exists |-> TRUE, parses |-> TRUE,
     fields |-> {"knowledgeBase", "vectorStore", "timestamp"},
     knowledgeBase |-> docs, vectorStore |-> entries]

\* a restore that does not test the fields of the parsed object
SnapshotRestorableIfParsed(file) ==
    /\ file.exists
    /\ file.parses

\* fs.readFile resolves, JSON.parse returns and
\* persistedData.vectorStore && persistedData.knowledgeBase
SnapshotRestorable(file) ==
    /\ file.exists
    /\ file.parses
    /\ {"vectorStore", "knowledgeBase"} \subseteq file.fields

\* the names fs.readdir returns, filtered to contentFiles
ContentFilesOf(dir, snap) ==
    SelectSeq(ListingOrder,
              LAMBDA f : /\ f \in DOMAIN dir \/ (f = SnapshotName /\ snap.exists)
                         /\ HasContentExtension(f)
                         /\ f # SnapshotName)

\* --------------------------------------------------------------- variables
VARIABLES
    sessions,        \* SessionStore: session id -> Message[]
    turns,           \* requests received so far
    pc,              \* per request slot: where the handler is
    sid,             \* sessionId of the request
    userMessage,     \* message of the request
    history,         \* conversationHistory, as read from sessions
    messages,        \* the live message list of chatWithBot
    toolCalls,       \* responseMessage.tool_calls
    callIdx,         \* index of the tool call being dispatched
    callLog,         \* callFunction invocations of the turn, with their outcome
    sent,            \* completion requests issued by the turn
    completions,     \* completion responses received by the turn
    outcome,         \* "none", "Answered" or "Failed"
    response,        \* ChatResponse.response
    updatedHistory,  \* ChatResponse.updatedHistory
    search,          \* history: how the proactive search of the turn ended
    served,          \* history: writes of a session and responses sent so far
    files,           \* the source directory: file name -> content
    snapshot,        \* the file vector-store.json
    arrays,          \* the KnowledgeDocument[] objects alive, by identity
    knowledgeBase,   \* the array the module variable knowledgeBase refers to
    vectorStore,     \* the module variable vectorStore
    watching,        \* the chokidar watcher is installed
    changes,         \* external changes of the directory so far
    embedFailures,   \* embedding requests that have failed so far
    persistFailures, \* snapshot writes that have failed so far
    loadPc,          \* per run of loadKnowledgeBase: where it is
    contentFiles,    \* its contentFiles
    fileIdx,         \* index of the file being read
    documents,       \* the array generateEmbeddingsForDocuments was passed
    needing,         \* docsNeedingEmbeddings, as indices into documents
    batchStart,      \* i of the batch loop
    pending,         \* documents of the batch whose request is in flight
    persistData,     \* the text persistKnowledgeBase is writing
    issued,          \* history: per run, the documents that lacked an embedding
                     \* and the requests sent for them, in order
    batchSize,       \* batchSize of generateEmbeddingsForDocuments
    afterLastRun,    \* history: the Document Store as the last returned run left it
    call,            \* a call of an exported function: its name and arguments
    result,          \* what the call returned or threw
    calendar         \* the calendar service: its events and how many it has created

chatVars == <<sessions, turns, pc, sid, userMessage, history, messages, toolCalls,
              callIdx, callLog, sent, completions, outcome, response, updatedHistory,
              search, served>>

kbVars == <<files, snapshot, arrays, knowledgeBase, vectorStore, watching, changes,
            embedFailures, persistFailures,
            loadPc, contentFiles, fileIdx, documents, needing, batchStart, pending,
            persistData, batchSize, afterLastRun, issued>>

fnVars == <<call, result, calendar>>

vars == <<chatVars, kbVars, fnVars>>

\* sessions[sessionId] || []
StoredHistory(s) == IF s \in DOMAIN sessions THEN sessions[s] ELSE <<>>

\* the session s1 as SeedTurns earlier answered turns leave it
SeedHistory ==
    [i \in 1..(2 * SeedTurns) |->
        IF i % 2 = 1 THEN Msg("user", "hello") ELSE Msg("assistant", "a1")]

\* the state of one request slot, as a record
Slot(r) ==
    [pc |-> pc[r], sid |-> sid[r], userMessage |-> userMessage[r],
     history |-> history[r], messages |-> messages[r], toolCalls |-> toolCalls[r],
     callIdx |-> callIdx[r], callLog |-> callLog[r], sent |-> sent[r],
     completions |-> completions[r],
     outcome |-> outcome[r], response |-> response[r],
     updatedHistory |-> updatedHistory[r], search |-> search[r]]

SetSlot(r, slot) ==
    /\ pc' = [pc EXCEPT ![r] = slot.pc]
    /\ sid' = [sid EXCEPT ![r] = slot.sid]
    /\ userMessage' = [userMessage EXCEPT ![r] = slot.userMessage]
    /\ history' = [history EXCEPT ![r] = slot.history]
    /\ messages' = [messages EXCEPT ![r] = slot.messages]
    /\ toolCalls' = [toolCalls EXCEPT ![r] = slot.toolCalls]
    /\ callIdx' = [callIdx EXCEPT ![r] = slot.callIdx]
    /\ callLog' = [callLog EXCEPT ![r] = slot.callLog]
    /\ sent' = [sent EXCEPT ![r] = slot.sent]
    /\ completions' = [completions EXCEPT ![r] = slot.completions]
    /\ outcome' = [outcome EXCEPT ![r] = slot.outcome]
    /\ response' = [response EXCEPT ![r] = slot.response]
    /\ updatedHistory' = [updatedHistory EXCEPT ![r] = slot.updatedHistory]
    /\ search' = [search EXCEPT ![r] = slot.search]

\* the locals of a call of chatWithBot(userMessage, conversationHistory)
NewSlot(s, um, h) ==
    [pc |-> "search", sid |-> s, userMessage |-> um, history |-> h,
     messages |-> <<>>, toolCalls |-> <<>>, callIdx |-> 0, callLog |-> <<>>,
     sent |-> <<>>, completions |-> <<>>, outcome |-> "none", response |-> "",
     updatedHistory |-> <<>>, search |-> "none"]

\* a slot with no request in it
IdleSlot ==
    [pc |-> "idle", sid |-> "s1", userMessage |-> "", history |-> <<>>,
     messages |-> <<>>, toolCalls |-> <<>>, callIdx |-> 0, callLog |-> <<>>,
     sent |-> <<>>, completions |-> <<>>, outcome |-> "none", response |-> "",
     updatedHistory |-> <<>>, search |-> "none"]

\* a request to chat.completions.create
Request(ms, tools, choice) == [messages |-> ms, tools |-> tools, tool_choice |-> choice]

\* ------------------------------------------------------------- chatWithBot
\* a catch that keeps the user message of the failed turn
ChatCatchKeepsUserMessage(slot) ==
    [slot EXCEPT !.pc = "respond", !.outcome = "Failed", !.response = Apology,
                 !.updatedHistory = Append(slot.history, Msg("user", slot.userMessage))]

\* a catch whose response names what the turn was doing
ChatCatchReportsStep(slot) ==
    [slot EXCEPT !.pc = "respond", !.outcome = "Failed",
                 !.response = Apology \o " (" \o slot.pc \o ")",
                 !.updatedHistory = slot.history]

\* the outer catch: the fixed apology and the history as passed in
ChatCatch(slot) ==
    [slot EXCEPT !.pc = "respond", !.outcome = "Failed", !.response = Apology,
                 !.updatedHistory = slot.history]

\* a completeHistory built on recentMessages instead of conversationHistory
CompleteHistoryOfRecent(slot, content) ==
    SliceLast(slot.history, HistoryWindow)
        \o <<Msg("user", slot.userMessage), Msg("assistant", OrEmpty(content))>>

\* completeHistory of both branches
CompleteHistory(slot, content) ==
    slot.history \o <<Msg("user", slot.userMessage), Msg("assistant", OrEmpty(content))>>

\* return {response, updatedHistory: completeHistory}
Answer(slot, content) ==
    [slot EXCEPT !.pc = "respond", !.outcome = "Answered",
                 !.response = OrEmpty(content),
                 !.updatedHistory = CompleteHistory(slot, content)]

EnhancedSystemPrompt(info) ==
    IF info # "" THEN SystemPrompt \o "\n\nRELEVANT KNOWLEDGE:\n" \o info ELSE SystemPrompt

\* messages = [system, ...recentMessages, user]
BuildMessages(slot, info) ==
    <<Msg("system", EnhancedSystemPrompt(info))>>
        \o SliceLast(slot.history, HistoryWindow)
        \o <<Msg("user", slot.userMessage)>>

\* how await semanticSearch(userMessage, 3) may settle inside the try of the
\* proactive search, and the relevantInfo that is then built: a rejection
\* leaves it empty, as does an empty result list
SearchOutcomes ==
    {[threw |-> TRUE, info |-> ""]}
        \cup {[threw |-> FALSE, info |-> info] : info \in RelevantInfos}

\* messages.map(convertToOpenAIMessage) and the first create({tools, tool_choice})
SendFirstCompletion(slot, info) ==
    LET ms == BuildMessages(slot, info)
    IN  IF AnyConvertThrows(ms)
        THEN ChatCatch([slot EXCEPT !.messages = ms])
        ELSE [slot EXCEPT !.messages = ms, !.pc = "first",
                          !.sent = <<Request(ConvertAll(ms), "functions", "auto")>>]

\* a proactive search outside any try: its rejection reaches the outer catch
AfterSearchPropagates(slot, o) ==
    IF o.threw
    THEN ChatCatch([slot EXCEPT !.search = "threw"])
    ELSE SendFirstCompletion([slot EXCEPT !.search = "returned"], o.info)

\* the proactive search has settled with o: its catch logs, the turn goes on
AfterSearch(slot, o) ==
    SendFirstCompletion([slot EXCEPT !.search = IF o.threw THEN "threw" ELSE "returned"],
                        o.info)

\* a second round that awaits a response to a request it has not sent
SendSecondCompletionUnsent(slot) == [slot EXCEPT !.pc = "unsent"]

\* create({messages: messages.map(convertToOpenAIMessage)}) with no tools
SendSecondCompletion(slot) ==
    IF AnyConvertThrows(slot.messages)
    THEN ChatCatch(slot)
    ELSE [slot EXCEPT !.pc = "second",
                      !.sent = Append(@, Request(ConvertAll(slot.messages), Null, Null))]

\* the head of iteration i of `for (const toolCall of toolCalls)`: JSON.parse of
\* the arguments, outside the inner try; past the last call, the second request
NextCall(slot, i) ==
    IF i > Len(slot.toolCalls)
    THEN SendSecondCompletion(slot)
    ELSE IF JsonParseThrows(slot.toolCalls[i].arguments)
         THEN ChatCatch(slot)
         ELSE [slot EXCEPT !.pc = "dispatch", !.callIdx = i]

\* a tool message whose content is the value itself, not its JSON text
ToolResultMsgUnserialized(tc, o) ==
    ToolMsg(tc.id, o.value)

\* the tool message pushed by the inner try (a value) or its catch (an error)
ToolResultMsg(tc, o) ==
    IF o.threw
    THEN ToolMsg(tc.id, SerializeError(o.value))
    ELSE ToolMsg(tc.id, Serialize(o.value))

\* a loop that tags every result with the identifier of the first call
AfterCallTagsFirstId(slot, o) ==
    LET tc == slot.toolCalls[slot.callIdx]
        first == slot.toolCalls[1]
    IN  NextCall([slot EXCEPT
                    !.messages = Append(@, ToolResultMsg([tc EXCEPT !.id = first.id], o)),
                    !.callLog = Append(@, [id |-> tc.id, name |-> tc.name,
                                           threw |-> o.threw, value |-> o.value])],
                 slot.callIdx + 1)

\* a loop with no inner try: a dispatch failure reaches the outer catch
AfterCallPropagates(slot, o) ==
    LET tc == slot.toolCalls[slot.callIdx]
        logged == [slot EXCEPT
                     !.callLog = Append(@, [id |-> tc.id, name |-> tc.name,
                                            threw |-> o.threw, value |-> o.value])]
    IN  IF o.threw
        THEN ChatCatch(logged)
        ELSE NextCall([logged EXCEPT !.messages = Append(@, ToolResultMsg(tc, o))],
                      slot.callIdx + 1)

\* callFunction has settled with o for the current call
AfterCall(slot, o) ==
    LET tc == slot.toolCalls[slot.callIdx]
    IN  NextCall([slot EXCEPT
                    !.messages = Append(@, ToolResultMsg(tc, o)),
                    !.callLog = Append(@, [id |-> tc.id, name |-> tc.name,
                                           threw |-> o.threw, value |-> o.value])],
                 slot.callIdx + 1)

\* a response of chat.completions.create: choices[0].message
Completion(content, tcs) == [content |-> content, tool_calls |-> tcs]

\* the first completion has returned {content, tool_calls}
AfterFirstResponse(slot, content, tcs) ==
    LET m1 == Append(slot.messages, Msg("assistant", OrEmpty(content)))
        got == [slot EXCEPT !.completions = Append(@, Completion(content, tcs))]
    IN  IF tcs # <<>>
        THEN NextCall([got EXCEPT
                         !.messages = Append(m1, AssistantToolCallsMsg(OrEmpty(content), tcs)),
                         !.toolCalls = tcs], 1)
        ELSE Answer([got EXCEPT !.messages = m1], content)

\* a second round that runs the calls the second response asks for
AfterSecondResponseDispatches(slot, content, tcs) ==
    LET got == [slot EXCEPT !.completions = Append(@, Completion(content, tcs))]
    IN  IF tcs # <<>>
        THEN NextCall([got EXCEPT !.toolCalls = tcs], 1)
        ELSE Answer(got, content)

\* the second completion has returned {content, tool_calls}: only the content
\* is read
AfterSecondResponse(slot, content, tcs) ==
    Answer([slot EXCEPT !.completions = Append(@, Completion(content, tcs))], content)

\* ----------------------------------------------------------------- actions
\* POST /api/chat up to the first await of chatWithBot
Receive(r) ==
    /\ pc[r] = "idle"
    /\ turns < MaxTurns
    /\ \E s \in Sessions, um \in UserMessages :
          LET slot == NewSlot(s, um, StoredHistory(s))
          IN  SetSlot(r, IF LooksInformational(um)
                         THEN slot
                         ELSE SendFirstCompletion(slot, ""))
    /\ turns' = turns + 1
    /\ UNCHANGED <<sessions, served, kbVars, fnVars>>

\* await semanticSearch(userMessage, 3) has settled; relevantInfo is built
ProactiveSearch(r) ==
    /\ pc[r] = "search"
    /\ \E o \in SearchOutcomes : SetSlot(r, AfterSearch(Slot(r), o))
    /\ UNCHANGED <<sessions, turns, served, kbVars, fnVars>>

\* the first completion returns; lists: the tool-call lists the service may ask for
FirstCompletion(r, lists) ==
    /\ pc[r] = "first"
    /\ \E content \in FirstContents, tcs \in {<<>>} \cup lists :
          SetSlot(r, AfterFirstResponse(Slot(r), content, tcs))
    /\ UNCHANGED <<sessions, turns, served, kbVars, fnVars>>

\* a completion request rejects: the outer catch
CompletionThrows(r) ==
    /\ pc[r] \in {"first", "second"}
    /\ SetSlot(r, ChatCatch(Slot(r)))
    /\ UNCHANGED <<sessions, turns, served, kbVars, fnVars>>

\* await callFunction(functionName, functionArgs) settles
Dispatch(r) ==
    /\ pc[r] = "dispatch"
    /\ \E o \in CallOutcomes(toolCalls[r][callIdx[r]].name) :
          SetSlot(r, AfterCall(Slot(r), o))
    /\ UNCHANGED <<sessions, turns, served, kbVars, fnVars>>

\* the second completion returns; no tools were offered, and the response may
\* ask for the calls of lists all the same
SecondCompletion(r, lists) ==
    /\ pc[r] = "second"
    /\ \E content \in SecondContents, tcs \in {<<>>} \cup lists :
          SetSlot(r, AfterSecondResponse(Slot(r), content, tcs))
    /\ UNCHANGED <<sessions, turns, served, kbVars, fnVars>>

\* a handler that replaces the whole store by the one session
RespondReplacesStore(r) ==
    /\ pc[r] = "respond"
    /\ sessions' = [k \in {sid[r]} |-> updatedHistory[r]]
    /\ SetSlot(r, IdleSlot)
    /\ served' = [written |-> served.written + 1, responded |-> served.responded + 1]
    /\ UNCHANGED <<turns, kbVars, fnVars>>

\* sessions[sessionId] = updatedHistory; res.json({response}); the request and
\* its locals are gone
Respond(r) ==
    /\ pc[r] = "respond"
    /\ sessions' = [k \in DOMAIN sessions \cup {sid[r]} |->
                       IF k = sid[r] THEN updatedHistory[r] ELSE sessions[k]]
    /\ SetSlot(r, IdleSlot)
    /\ served' = [written |-> served.written + 1, responded |-> served.responded + 1]
    /\ UNCHANGED <<turns, kbVars, fnVars>>

\* ------------------------------------------------------------ the calendar
\* timeMin and timeMax of freebusy.query: the string with 'Z' appended when it
\* does not end with it, so its hour is read as UTC
QueryInstant(t) == t.hour

\* start and end of an inserted event: a dateTime ending with 'Z' is UTC, any
\* other is local time of timeZone 'America/Los_Angeles'
EventInstant(t) == IF t.zulu THEN t.hour ELSE t.hour + LosAngelesOffset

\* response.data.calendars[calendarId].busy of freebusy.query: the service
\* reports every event of the calendar that meets the interval
BusySlots(calendarId, timeMin, timeMax) ==
    {e \in calendar.events :
        e.calendarId = calendarId /\ e.start < timeMax /\ timeMin < e.end}

\* the service after events.insert of an event for args
Inserted(args) ==
    [events |-> calendar.events \cup
                    {[id |-> "ev" \o ToString(calendar.created + 1),
                      calendarId |-> args.calendarId,
                      start |-> EventInstant(args.startDateTime),
                      end |-> EventInstant(args.endDateTime)]},
     created |-> calendar.created + 1]

\* the service after events.delete of eventId on calendarId
Deleted(args) ==
    [calendar EXCEPT !.events =
        {e \in @ : ~(e.id = args.eventId /\ e.calendarId = args.calendarId)}]

CurrentCall(r) == toolCalls[r][callIdx[r]]

\* createAppointment: await checkAvailability(...) returns; a busy slot makes
\* the call return {success: false}, none lets it go on to events.insert
QueryFreeBusy(r) ==
    /\ pc[r] = "dispatch"
    /\ CurrentCall(r).name = "createAppointment"
    /\ LET args == AppointmentArgs(CurrentCall(r).arguments)
           busySlots == BusySlots(args.calendarId, QueryInstant(args.startDateTime),
                                  QueryInstant(args.endDateTime))
       IN  IF busySlots = {}
           THEN SetSlot(r, [Slot(r) EXCEPT !.pc = "insert"])
           ELSE SetSlot(r, AfterCall(Slot(r), [threw |-> FALSE, value |-> "success:false"]))
    /\ UNCHANGED <<sessions, turns, served, kbVars, fnVars>>

\* freebusy.query rejects: checkAvailability throws, the catch of
\* createAppointment throws "Failed to create appointment"
QueryFreeBusyFails(r) ==
    /\ pc[r] = "dispatch"
    /\ CurrentCall(r).name = "createAppointment"
    /\ SetSlot(r, AfterCall(Slot(r), [threw |-> TRUE,
                                      value |-> "Failed to create appointment"]))
    /\ UNCHANGED <<sessions, turns, served, kbVars, fnVars>>

\* await calendar.events.insert(...) resolves: the call returns {success: true}
InsertEvent(r) ==
    /\ pc[r] = "insert"
    /\ calendar' = Inserted(AppointmentArgs(CurrentCall(r).arguments))
    /\ SetSlot(r, AfterCall(Slot(r), [threw |-> FALSE, value |-> "success:true"]))
    /\ UNCHANGED <<sessions, turns, served, kbVars, call, result>>

\* events.insert rejects
InsertEventFails(r) ==
    /\ pc[r] = "insert"
    /\ SetSlot(r, AfterCall(Slot(r), [threw |-> TRUE,
                                      value |-> "Failed to create appointment"]))
    /\ UNCHANGED <<sessions, turns, served, kbVars, fnVars>>

\* cancelAppointment: await calendar.events.delete(...) resolves for an event
\* the calendar holds
DeleteEvent(r) ==
    /\ pc[r] = "dispatch"
    /\ CurrentCall(r).name = "cancelAppointment"
    /\ Deleted(CancelArgs(CurrentCall(r).arguments)) # calendar
    /\ calendar' = Deleted(CancelArgs(CurrentCall(r).arguments))
    /\ SetSlot(r, AfterCall(Slot(r), [threw |-> FALSE, value |-> "cancelled"]))
    /\ UNCHANGED <<sessions, turns, served, kbVars, call, result>>

\* events.delete rejects, as it does for an event the calendar does not hold
DeleteEventFails(r) ==
    /\ pc[r] = "dispatch"
    /\ CurrentCall(r).name = "cancelAppointment"
    /\ SetSlot(r, AfterCall(Slot(r), [threw |-> TRUE,
                                      value |-> "Failed to cancel appointment"]))
    /\ UNCHANGED <<sessions, turns, served, kbVars, fnVars>>

\* ------------------------------------------------- knowledge: the actions
\* runs of loadKnowledgeBase that may be in flight together
Loads == {1, 2}

\* identities for the arrays alive at one time: the one knowledgeBase refers to
\* and those the runs of generateEmbeddingsForDocuments hold
ArrayOrder == <<"A1", "A2", "A3">>
ArrayIds == {ArrayOrder[i] : i \in 1..Len(ArrayOrder)}
NoArray == "none"

\* the Document Store: the content of the array knowledgeBase refers to
Store == arrays[knowledgeBase]

\* the identity a newly created array gets
FirstFree(live) ==
    ArrayOrder[CHOOSE i \in 1..Len(ArrayOrder) :
                   /\ ArrayOrder[i] \notin live
                   /\ \A j \in 1..(i - 1) : ArrayOrder[j] \in live]

\* what no reference reaches is gone
Collect(arr, kb, docs) ==
    [a \in ArrayIds |-> IF a = kb \/ (\E l \in Loads : docs[l] = a) THEN arr[a] ELSE <<>>]

\* indices of documents.filter(doc => !doc.metadata?.embedding)
NeedingEmbeddings(docs) ==
    LET idx == [i \in 1..Len(docs) |-> i]
    IN  SelectSeq(idx, LAMBDA i : docs[i].metadata.embedding = NoEmbedding)

\* a slice that takes in the last document of the batch before
BatchSliceOverlapping(need, start) ==
    SubSeq(need, IF start = 0 THEN 1 ELSE start, Min(start + batchSize, Len(need)))

\* docsNeedingEmbeddings.slice(i, i + batchSize)
BatchSlice(need, start) == SubSeq(need, start + 1, Min(start + batchSize, Len(need)))

\* the documents of the batch: a request is sent for each
BatchOf(need, start) ==
    {BatchSlice(need, start)[k] : k \in 1..Len(BatchSlice(need, start))}

\* no request has been sent
NoRequests == [lacking |-> <<>>, requests |-> <<>>]

\* no run of loadKnowledgeBase has returned yet
NoRun == [returned |-> FALSE, store |-> <<>>]

\* loadKnowledgeBase returns (also from its catch); startServer, awaiting the
\* first load, then installs the watcher
ReturnFromLoadTo(l, pcs) ==
    /\ loadPc' = pcs
    /\ contentFiles' = [contentFiles EXCEPT ![l] = <<>>]
    /\ fileIdx' = [fileIdx EXCEPT ![l] = 0]
    /\ needing' = [needing EXCEPT ![l] = <<>>]
    /\ batchStart' = [batchStart EXCEPT ![l] = 0]
    /\ pending' = [pending EXCEPT ![l] = {}]
    /\ persistData' = [persistData EXCEPT ![l] = NoSnapshot]
    /\ watching' = TRUE
    /\ afterLastRun' = [returned |-> TRUE, store |-> arrays'[knowledgeBase']]
    /\ UNCHANGED issued

ReturnFromLoad(l) == ReturnFromLoadTo(l, [loadPc EXCEPT ![l] = "idle"])

\* a watcher that lets every path through
IgnoredNever(path) == FALSE

\* chokidar's ignored: /vector-store\.json$/ and the handler's
\* !path.endsWith('vector-store.json'), over the names of the directory
Ignored(path) == path = SnapshotName

\* the watcher's handler on an add or change of path, the loads standing at
\* pcs: unless the path is ignored, loadKnowledgeBase is called and runs up to
\* its first await
OnPathEvent(path, pcs) ==
    IF watching /\ ~Ignored(path) /\ \E l \in Loads : pcs[l] = "idle"
    THEN LET l == CHOOSE m \in Loads :
                      pcs[m] = "idle" /\ \A n \in Loads : pcs[n] = "idle" => m <= n
         IN  [pcs EXCEPT ![l] = "readSnapshot"]
    ELSE pcs

\* generateEmbeddingsForDocuments has returned the array ref: knowledgeBase is
\* assigned, vectorStore is built and persistKnowledgeBase starts its write
FinishGenerate(l, arr, ref) ==
    LET entries == VectorEntriesOf(arr[ref])
        docs == [documents EXCEPT ![l] = NoArray]
    IN  /\ knowledgeBase' = ref
        /\ vectorStore' = entries
        /\ persistData' = [persistData EXCEPT ![l] = SnapshotText(arr[ref], entries)]
        /\ documents' = docs
        /\ arrays' = Collect(arr, ref, docs)
        /\ loadPc' = [loadPc EXCEPT ![l] = "persist"]
        /\ needing' = [needing EXCEPT ![l] = <<>>]
        /\ batchStart' = [batchStart EXCEPT ![l] = 0]
        /\ pending' = [pending EXCEPT ![l] = {}]

\* generateEmbeddingsForDocuments(embeddingOpenAI, knowledgeBase) is called
\* with the store as it is in arr: up to the requests of the first batch
BeginGenerate(l, arr) ==
    LET need == NeedingEmbeddings(arr[knowledgeBase])
    IN  /\ issued' = [issued EXCEPT ![l] = [lacking |-> need,
                                            requests |-> BatchSlice(need, 0)]]
        /\ IF need = <<>>
           THEN FinishGenerate(l, arr, knowledgeBase)
           ELSE /\ documents' = [documents EXCEPT ![l] = knowledgeBase]
                /\ needing' = [needing EXCEPT ![l] = need]
                /\ batchStart' = [batchStart EXCEPT ![l] = 0]
                /\ pending' = [pending EXCEPT ![l] = BatchOf(need, 0)]
                /\ loadPc' = [loadPc EXCEPT ![l] = "embed"]
                /\ arrays' = arr
                /\ UNCHANGED <<knowledgeBase, vectorStore, persistData>>

\* the request for document i of the batch has settled, leaving arr
AfterRequest(l, i, arr) ==
    LET left == pending[l] \ {i}
    IN  /\ UNCHANGED issued
        /\ IF left # {}
           THEN /\ pending' = [pending EXCEPT ![l] = left]
                /\ arrays' = arr
                /\ UNCHANGED <<knowledgeBase, vectorStore, persistData, documents,
                               loadPc, needing, batchStart>>
           ELSE IF batchStart[l] + batchSize < Len(needing[l])
                THEN /\ pending' = [pending EXCEPT ![l] = left]
                     /\ loadPc' = [loadPc EXCEPT ![l] = "pause"]
                     /\ arrays' = arr
                     /\ UNCHANGED <<knowledgeBase, vectorStore, persistData, documents,
                                    needing, batchStart>>
                ELSE FinishGenerate(l, arr, documents[l])

\* a load that does not clear the stores before it rebuilds
ReadSnapshotKeepsStore(l) ==
    /\ loadPc[l] = "readSnapshot"
    /\ IF SnapshotRestorable(snapshot)
       THEN LET new == FirstFree({documents[m] : m \in Loads} \ {NoArray})
            IN  /\ vectorStore' = snapshot.vectorStore
                /\ knowledgeBase' = new
                /\ arrays' = Collect([arrays EXCEPT ![new] = snapshot.knowledgeBase],
                                     new, documents)
                /\ ReturnFromLoad(l)
       ELSE /\ loadPc' = [loadPc EXCEPT ![l] = "readdir"]
            /\ UNCHANGED <<vectorStore, knowledgeBase, arrays, watching, contentFiles,
                           fileIdx, needing, batchStart, pending, issued, persistData,
                           afterLastRun>>
    /\ UNCHANGED <<embedFailures, persistFailures, files, snapshot, changes, documents,
                   chatVars, fnVars, batchSize>>

\* await fs.readFile(vectorStorePath) settles: restore the snapshot and return,
\* or clear both stores and list the directory
ReadSnapshot(l) ==
    /\ loadPc[l] = "readSnapshot"
    /\ LET new == FirstFree({documents[m] : m \in Loads} \ {NoArray})
       IN  IF SnapshotRestorable(snapshot)
           THEN /\ vectorStore' = snapshot.vectorStore
                /\ knowledgeBase' = new
                /\ arrays' = Collect([arrays EXCEPT ![new] = snapshot.knowledgeBase],
                                     new, documents)
                /\ ReturnFromLoad(l)
           ELSE /\ vectorStore' = <<>>
                /\ knowledgeBase' = new
                /\ arrays' = Collect([arrays EXCEPT ![new] = <<>>], new, documents)
                /\ loadPc' = [loadPc EXCEPT ![l] = "readdir"]
                /\ UNCHANGED <<watching, contentFiles, fileIdx, needing, batchStart,
                               pending, issued, persistData, afterLastRun>>
    /\ UNCHANGED <<embedFailures, persistFailures, files, snapshot, changes, documents, chatVars, fnVars, batchSize>>

\* await fs.readdir(directoryPath) settles; contentFiles is filtered
ReadDir(l) ==
    /\ loadPc[l] = "readdir"
    /\ LET cf == ContentFilesOf(files, snapshot)
       IN  /\ contentFiles' = [contentFiles EXCEPT ![l] = cf]
           /\ IF cf = <<>>
              THEN /\ BeginGenerate(l, arrays)
                   /\ UNCHANGED fileIdx
              ELSE /\ loadPc' = [loadPc EXCEPT ![l] = "readFile"]
                   /\ fileIdx' = [fileIdx EXCEPT ![l] = 1]
                   /\ UNCHANGED <<arrays, knowledgeBase, vectorStore, documents, needing,
                                  batchStart, pending, issued, persistData>>
    /\ UNCHANGED <<embedFailures, persistFailures, files, snapshot, watching, changes,
                   afterLastRun, chatVars, fnVars, batchSize>>

\* await fs.readFile(filePath) settles with the content: the documents of the
\* file are pushed on knowledgeBase; after the last file the embeddings start
ReadFile(l) ==
    /\ loadPc[l] = "readFile"
    /\ contentFiles[l][fileIdx[l]] \in DOMAIN files
    /\ LET file == contentFiles[l][fileIdx[l]]
           arr == [arrays EXCEPT ![knowledgeBase] = @ \o DocumentsOfFile(file, files[file])]
       IN  IF fileIdx[l] < Len(contentFiles[l])
           THEN /\ fileIdx' = [fileIdx EXCEPT ![l] = @ + 1]
                /\ arrays' = arr
                /\ UNCHANGED <<knowledgeBase, vectorStore, documents, needing, batchStart,
                               pending, issued, persistData, loadPc>>
           ELSE /\ BeginGenerate(l, arr)
                /\ UNCHANGED fileIdx
    /\ UNCHANGED <<embedFailures, persistFailures, files, snapshot, watching, changes,
                   contentFiles, afterLastRun, chatVars, fnVars, batchSize>>

\* await fs.readFile(filePath) rejects, the file being gone: the outer catch
\* logs and the load returns
ReadFileThrows(l) ==
    /\ loadPc[l] = "readFile"
    /\ contentFiles[l][fileIdx[l]] \notin DOMAIN files
    /\ UNCHANGED <<embedFailures, persistFailures, files, snapshot, changes, arrays,
                   knowledgeBase, vectorStore, documents, chatVars, fnVars, batchSize>>
    /\ ReturnFromLoad(l)

\* openai.embeddings.create resolves for document i of the batch
EmbedSucceeds(l, i) ==
    /\ loadPc[l] = "embed"
    /\ i \in pending[l]
    /\ LET ref == documents[l]
           doc == arrays[ref][i]
           md == [doc.metadata EXCEPT !.embedding = EmbeddingOf(doc)]
           own == [arrays[ref] EXCEPT ![i].metadata = md]
           k == FindIndex(own, doc.id)
           all == IF k > 0 THEN [own EXCEPT ![k].metadata = md] ELSE own
       IN  AfterRequest(l, i, [arrays EXCEPT ![ref] = all])
    /\ UNCHANGED <<embedFailures, persistFailures, files, snapshot, watching, changes,
                   contentFiles, fileIdx, afterLastRun, chatVars, fnVars, batchSize>>

\* a rejected embedding request that is not caught per document: the run ends
\* in the outer catch of loadKnowledgeBase
EmbedFailsAbortsRun(l, i) ==
    /\ loadPc[l] = "embed"
    /\ i \in pending[l]
    /\ embedFailures < MaxEmbedFailures
    /\ embedFailures' = embedFailures + 1
    /\ documents' = [documents EXCEPT ![l] = NoArray]
    /\ UNCHANGED <<persistFailures, files, snapshot, changes, arrays, knowledgeBase,
                   vectorStore, chatVars, fnVars, batchSize>>
    /\ ReturnFromLoad(l)

\* openai.embeddings.create rejects for document i: logged, skipped
EmbedFails(l, i) ==
    /\ loadPc[l] = "embed"
    /\ i \in pending[l]
    /\ embedFailures < MaxEmbedFailures
    /\ embedFailures' = embedFailures + 1
    /\ AfterRequest(l, i, arrays)
    /\ UNCHANGED <<persistFailures, files, snapshot, watching, changes, contentFiles,
                   fileIdx, afterLastRun, chatVars, fnVars, batchSize>>

\* the 200 ms pause is over: the requests of the next batch
NextBatch(l) ==
    /\ loadPc[l] = "pause"
    /\ batchStart' = [batchStart EXCEPT ![l] = @ + batchSize]
    /\ pending' = [pending EXCEPT ![l] = BatchOf(needing[l], batchStart[l] + batchSize)]
    /\ issued' = [issued EXCEPT ![l].requests =
                                   @ \o BatchSlice(needing[l], batchStart[l] + batchSize)]
    /\ loadPc' = [loadPc EXCEPT ![l] = "embed"]
    /\ UNCHANGED <<embedFailures, persistFailures, files, snapshot, arrays, knowledgeBase,
                   vectorStore, watching, changes, contentFiles, fileIdx, documents,
                   needing, persistData, afterLastRun, chatVars, fnVars, batchSize>>

\* await fs.writeFile(vectorStorePath, ...) resolves: the load returns and the
\* watcher, when installed, sees the change of vector-store.json
PersistWrites(l) ==
    /\ loadPc[l] = "persist"
    /\ snapshot' = persistData[l]
    /\ UNCHANGED <<embedFailures, persistFailures, files, changes, arrays, knowledgeBase,
                   vectorStore, documents, chatVars, fnVars, batchSize>>
    /\ ReturnFromLoadTo(l, OnPathEvent(SnapshotName, [loadPc EXCEPT ![l] = "idle"]))

\* await fs.writeFile rejects: persistKnowledgeBase logs and returns
PersistFails(l) ==
    /\ loadPc[l] = "persist"
    /\ persistFailures < MaxPersistFailures
    /\ persistFailures' = persistFailures + 1
    /\ UNCHANGED <<embedFailures, files, snapshot, changes, arrays, knowledgeBase, vectorStore,
                   documents, chatVars, fnVars, batchSize>>
    /\ ReturnFromLoad(l)

\* watcher.on('all'): an add, change or unlink of a source file calls
\* loadKnowledgeBase, which runs up to its first await. Before the watcher is
\* installed the directory changes unseen.
OnFileEvent ==
    IF watching
    THEN /\ \E l \in Loads : loadPc[l] = "idle"
         /\ LET l == CHOOSE m \in Loads :
                        loadPc[m] = "idle" /\ \A n \in Loads : loadPc[n] = "idle" => m <= n
            IN  loadPc' = [loadPc EXCEPT ![l] = "readSnapshot"]
    ELSE UNCHANGED loadPc

\* a source file is added or changed from outside
FileWritten(f, c) ==
    /\ changes < MaxChanges
    /\ IF f \in DOMAIN files THEN files[f] # c ELSE TRUE
    /\ files' = [g \in DOMAIN files \cup {f} |-> IF g = f THEN c ELSE files[g]]
    /\ changes' = changes + 1
    /\ OnFileEvent
    /\ UNCHANGED <<embedFailures, persistFailures, snapshot, arrays, knowledgeBase, vectorStore, watching, contentFiles,
                   fileIdx, documents, needing, batchStart, pending, issued, persistData,
                   afterLastRun, chatVars, fnVars, batchSize>>

\* a source file is removed from outside
FileRemoved(f) ==
    /\ changes < MaxChanges
    /\ f \in DOMAIN files
    /\ files' = [g \in DOMAIN files \ {f} |-> files[g]]
    /\ changes' = changes + 1
    /\ OnFileEvent
    /\ UNCHANGED <<embedFailures, persistFailures, snapshot, arrays, knowledgeBase, vectorStore, watching, contentFiles,
                   fileIdx, documents, needing, batchStart, pending, issued, persistData,
                   afterLastRun, chatVars, fnVars, batchSize>>

\* startServer over the directory dir with the file snap as vector-store.json:
\* the first loadKnowledgeBase is running, the watcher is not installed yet
StartServer(dir, snap, size) ==
    /\ files = dir
    /\ snapshot = snap
    /\ arrays = [a \in ArrayIds |-> <<>>]
    /\ knowledgeBase = ArrayOrder[1]
    /\ vectorStore = <<>>
    /\ watching = FALSE
    /\ changes = 0
    /\ embedFailures = 0
    /\ persistFailures = 0
    /\ loadPc = [l \in Loads |-> IF l = 1 THEN "readSnapshot" ELSE "idle"]
    /\ contentFiles = [l \in Loads |-> <<>>]
    /\ fileIdx = [l \in Loads |-> 0]
    /\ documents = [l \in Loads |-> NoArray]
    /\ needing = [l \in Loads |-> <<>>]
    /\ batchStart = [l \in Loads |-> 0]
    /\ pending = [l \in Loads |-> {}]
    /\ persistData = [l \in Loads |-> NoSnapshot]
    /\ batchSize = size
    /\ afterLastRun = NoRun
    /\ issued = [l \in Loads |-> NoRequests]

\* the directory holds one file and no snapshot
InitKB == StartServer([f \in {"a.md"} |-> ShortText], NoSnapshot, BatchSize)

\* no exported function is being called
NoCall == [fn |-> "none"]
NoResult == [kind |-> "none"]

\* a calendar service that holds no event
NoEvents == [events |-> {}, created |-> 0]

InitFn ==
    /\ call = NoCall
    /\ result = NoResult
    /\ calendar = NoEvents

InitChat ==
    /\ sessions = [s \in {"s1"} |-> SeedHistory]
    /\ turns = 0
    /\ served = [written |-> 0, responded |-> 0]
    /\ pc = [r \in Reqs |-> IdleSlot.pc]
    /\ sid = [r \in Reqs |-> IdleSlot.sid]
    /\ userMessage = [r \in Reqs |-> IdleSlot.userMessage]
    /\ history = [r \in Reqs |-> IdleSlot.history]
    /\ messages = [r \in Reqs |-> IdleSlot.messages]
    /\ toolCalls = [r \in Reqs |-> IdleSlot.toolCalls]
    /\ callIdx = [r \in Reqs |-> IdleSlot.callIdx]
    /\ callLog = [r \in Reqs |-> IdleSlot.callLog]
    /\ sent = [r \in Reqs |-> IdleSlot.sent]
    /\ completions = [r \in Reqs |-> IdleSlot.completions]
    /\ outcome = [r \in Reqs |-> IdleSlot.outcome]
    /\ response = [r \in Reqs |-> IdleSlot.response]
    /\ updatedHistory = [r \in Reqs |-> IdleSlot.updatedHistory]
    /\ search = [r \in Reqs |-> IdleSlot.search]

Init == InitChat /\ InitKB /\ InitFn

\* one request at a time, every tool-call list
NextTurn ==
    \/ Receive(1)
    \/ ProactiveSearch(1)
    \/ FirstCompletion(1, ToolCallLists)
    \/ CompletionThrows(1)
    \/ Dispatch(1)
    \/ SecondCompletion(1, SingleCallLists)
    \/ Respond(1)

SpecTurn == Init /\ [][NextTurn]_vars

\* what the turn of slot r does once the request is in: every await settles
AfterReceive(r) ==
    \/ ProactiveSearch(r)
    \/ FirstCompletion(r, ToolCallLists)
    \/ CompletionThrows(r)
    \/ Dispatch(r)
    \/ SecondCompletion(r, SingleCallLists)
    \/ Respond(r)

\* one request at a time, every external call returning or failing in the end
SpecTurnLive == SpecTurn /\ WF_vars(AfterReceive(1))

\* overlapping requests, the service asking for one well-formed call at most
NextChat ==
    \/ \E r \in Reqs : Receive(r)
    \/ \E r \in Reqs : ProactiveSearch(r)
    \/ \E r \in Reqs : FirstCompletion(r, SingleCallLists)
    \/ \E r \in Reqs : CompletionThrows(r)
    \/ \E r \in Reqs : Dispatch(r)
    \/ \E r \in Reqs : SecondCompletion(r, {})
    \/ \E r \in Reqs : Respond(r)

SpecChat == Init /\ [][NextChat]_vars

\* two requests whose turns book or cancel appointments
NextBooking ==
    \/ \E r \in Reqs : Receive(r)
    \/ \E r \in Reqs : ProactiveSearch(r)
    \/ \E r \in Reqs : FirstCompletion(r, BookingCallLists)
    \/ \E r \in Reqs : CompletionThrows(r)
    \/ \E r \in Reqs : QueryFreeBusy(r)
    \/ \E r \in Reqs : QueryFreeBusyFails(r)
    \/ \E r \in Reqs : InsertEvent(r)
    \/ \E r \in Reqs : InsertEventFails(r)
    \/ \E r \in Reqs : DeleteEvent(r)
    \/ \E r \in Reqs : DeleteEventFails(r)
    \/ \E r \in Reqs : SecondCompletion(r, {})
    \/ \E r \in Reqs : Respond(r)

SpecBooking == Init /\ [][NextBooking]_vars

\* ------------------------------------------------------------ chunkContent
\* lengths of a paragraph, of a separator and of maxChunkLength
ParagraphLengths == {400, 600, 900, 1500, 2100}
SeparatorLengths == {SeparatorLength, SeparatorLength + 1}
ChunkMaxima == {1000, MaxChunkLength}

ParagraphTag(i) == "p" \o ToString(i)

\* the texts of n paragraphs; a text may begin or end with a separator, which
\* split() turns into an empty first or last paragraph
TextsOf(n) ==
    {t \in [1..n -> [tag : {ParagraphTag(i) : i \in 1..n},
                     len : ParagraphLengths \cup {0},
                     gap : SeparatorLengths]] :
        /\ t[1].gap = SeparatorLength
        /\ \A i \in 1..n : t[i].tag = ParagraphTag(i)
        /\ \A i \in 1..n : t[i].len = 0 => (n > 1 /\ i \in {1, n})}

ChunkTexts == UNION {TextsOf(n) : n \in 1..MaxParagraphs}

\* a call chunkContent(content, maxChunkLength)
ChunkCalls ==
    [fn : {"chunkContent"}, content : ChunkTexts, maxChunkLength : ChunkMaxima]

\* chunkContent returns
ChunkReturns ==
    /\ call.fn = "chunkContent"
    /\ result = NoResult
    /\ result' = [kind |-> "returned",
                  value |-> ChunkContent(call.content, call.maxChunkLength)]
    /\ UNCHANGED <<call, calendar, chatVars, kbVars>>

InitChunk ==
    /\ InitChat
    /\ InitKB
    /\ call \in ChunkCalls
    /\ result = NoResult
    /\ calendar = NoEvents

NextChunk == ChunkReturns

SpecChunk == InitChunk /\ [][NextChunk]_vars

\* the directories a server may be started on
Directories ==
    {[f \in {"a.md"} |-> a] : a \in {ShortText, LongText, LongerText}}
        \cup {[f \in FileNames |-> IF f = "a.md" THEN a ELSE b] :
                  a \in {ShortText, LongText, LongerText}, b \in {JsonDoc, BrokenJson}}

\* a snapshot left by an earlier process over a directory that held other files
StaleSnapshot ==
    LET doc == [Document("old.md", "old", <<Para("old", 100)>>, Metadata("", Null, -1))
                   EXCEPT !.metadata.embedding = <<"old", <<Para("old", 100)>>>>]
    IN  SnapshotText(<<doc>>, VectorEntriesOf(<<doc>>))

\* what vector-store.json may be when the server starts
InitialSnapshots == {NoSnapshot, UnparsableSnapshot, FieldlessSnapshot, StaleSnapshot}

\* a call of generateEmbeddingsForDocuments may pass its own batchSize
BatchSizes == {SmallBatchSize, BatchSize}

\* a change event for a file whose content is what it was; it comes when no
\* run of loadKnowledgeBase is in flight
FileTouched(f) ==
    /\ changes < MaxChanges
    /\ f \in DOMAIN files
    /\ watching
    /\ \A l \in Loads : loadPc[l] = "idle"
    /\ changes' = changes + 1
    /\ OnFileEvent
    /\ UNCHANGED <<embedFailures, persistFailures, files, snapshot, arrays, knowledgeBase,
                   vectorStore, watching, contentFiles, fileIdx, documents, needing,
                   batchStart, pending, issued, persistData, afterLastRun, chatVars, fnVars,
                   batchSize>>

InitLoad ==
    /\ InitChat
    /\ InitFn
    /\ \E dir \in Directories, snap \in InitialSnapshots, size \in BatchSizes :
          StartServer(dir, snap, size)

\* run after run of loadKnowledgeBase over a directory that does not change
NextLoad ==
    \/ \E l \in Loads : ReadSnapshot(l)
    \/ \E l \in Loads : ReadDir(l)
    \/ \E l \in Loads : ReadFile(l)
    \/ \E l \in Loads : \E i \in pending[l] : EmbedSucceeds(l, i)
    \/ \E l \in Loads : \E i \in pending[l] : EmbedFails(l, i)
    \/ \E l \in Loads : NextBatch(l)
    \/ \E l \in Loads : PersistWrites(l)
    \/ \E l \in Loads : PersistFails(l)
    \/ \E f \in FileNames : FileTouched(f)

SpecLoad == InitLoad /\ [][NextLoad]_vars

\* a step of a run of loadKnowledgeBase: an awaited read, request or write
\* resolves or rejects
LoadStep ==
    \/ \E l \in Loads : ReadSnapshot(l)
    \/ \E l \in Loads : ReadDir(l)
    \/ \E l \in Loads : ReadFile(l)
    \/ \E l \in Loads : \E i \in pending[l] : EmbedSucceeds(l, i)
    \/ \E l \in Loads : \E i \in pending[l] : EmbedFails(l, i)
    \/ \E l \in Loads : NextBatch(l)
    \/ \E l \in Loads : PersistWrites(l)
    \/ \E l \in Loads : PersistFails(l)

\* the runs of loadKnowledgeBase when every awaited call settles: the event
\* loop resumes a run whose promise has settled
SpecLoadLive == SpecLoad /\ WF_vars(LoadStep)

\* the knowledge base: the first load, the watcher and the reloads
NextKB ==
    \/ \E l \in Loads : ReadSnapshot(l)
    \/ \E l \in Loads : ReadDir(l)
    \/ \E l \in Loads : ReadFile(l)
    \/ \E l \in Loads : ReadFileThrows(l)
    \/ \E l \in Loads : \E i \in pending[l] : EmbedSucceeds(l, i)
    \/ \E l \in Loads : \E i \in pending[l] : EmbedFails(l, i)
    \/ \E l \in Loads : PersistWrites(l)
    \/ \E l \in Loads : PersistFails(l)
    \/ \E f \in FileNames : \E c \in ContentsOf(f) : FileWritten(f, c)
    \/ \E f \in FileNames : FileRemoved(f)

SpecKB == Init /\ [][NextKB]_vars

\* ------------------------------------------------------------------ search
\* query.toLowerCase().split(/\s+/).filter(k => k.length > 2), for the queries
\* of the model
Queries == {"policy fee", "is it open", "c++ fee", "hello", "any charge"}

Keywords(query) ==
    CASE query = "policy fee" -> {"policy", "fee"}
      [] query = "is it open" -> {"open"}
      [] query = "c++ fee" -> {"c++", "fee"}
      [] query = "hello" -> {"hello"}
      [] query = "any charge" -> {"any", "charge"}

\* getSynonymMap()
SynonymMap ==
    [w \in {"cancel", "appointment", "reschedule", "virtual", "policy", "fee", "late",
            "available", "unavailable", "doctor", "location", "time"} |->
        CASE w = "cancel" -> {"cancelation", "cancelling", "reschedule", "abort", "terminate"}
          [] w = "appointment" -> {"meeting", "session", "consultation", "booking", "reservation"}
          [] w = "reschedule" -> {"change", "move", "adjust", "shift", "postpone"}
          [] w = "virtual" -> {"online", "remote", "digital", "video", "teleconference"}
          [] w = "policy" -> {"rule", "guideline", "regulation", "procedure", "protocol"}
          [] w = "fee" -> {"charge", "cost", "payment", "price", "expense"}
          [] w = "late" -> {"tardy", "delayed", "behind schedule", "not on time"}
          [] w = "available" -> {"free", "open", "vacant", "accessible", "obtainable"}
          [] w = "unavailable" -> {"busy", "occupied", "booked", "reserved", "taken"}
          [] w = "doctor" -> {"physician", "specialist", "practitioner", "clinician"}
          [] w = "location" -> {"place", "venue", "site", "facility", "address"}
          [] w = "time" -> {"schedule", "slot", "hour", "period", "duration"}]

\* expandedKeywords: each keyword, and the whole group of every entry of the
\* synonym map the keyword is the word or a synonym of
ExpandedKeywords(query) ==
    Keywords(query) \cup
        UNION {{w} \cup SynonymMap[w] :
                  w \in {x \in DOMAIN SynonymMap :
                            \E k \in Keywords(query) : k = x \/ k \in SynonymMap[x]}}

\* the keywords new RegExp(keyword, 'g') throws a SyntaxError for
InvalidPatterns == {"c++"}

\* lowerTitle.includes(keyword), for the titles of the model
TitleIncludes(title, keyword) ==
    \/ title = "fees" /\ keyword = "fee"
    \/ title = "policy-rules" /\ keyword \in {"policy", "rule"}

\* (text.toLowerCase().match(new RegExp(keyword, 'g')) || []).length, for the
\* paragraphs of the model; a paragraph's tag is its text
Occurrences(text, keyword) ==
    CASE text = "a late fee applies." /\ keyword = "fee" -> 1
      [] text = "our policy: each rule is a policy." /\ keyword = "policy" -> 2
      [] text = "our policy: each rule is a policy." /\ keyword = "rule" -> 1
      [] text = "open nine to five, free parking." /\ keyword \in {"open", "free"} -> 1
      [] OTHER -> 0

RECURSIVE ContentMatches(_, _)
ContentMatches(content, keyword) ==
    IF content = <<>> THEN 0
    ELSE Occurrences(Head(content).tag, keyword) + ContentMatches(Tail(content), keyword)

RECURSIVE SumOver(_, _)
SumOver(set, f) ==
    IF set = {} THEN 0
    ELSE LET x == CHOOSE y \in set : TRUE
         IN  f[x] + SumOver(set \ {x}, f)

\* the score basicKeywordSearch gives a document
KeywordScore(doc, query) ==
    LET kws == ExpandedKeywords(query)
    IN  SumOver(kws, [k \in kws |->
                         (IF TitleIncludes(doc.title, k) THEN TitleWeight ELSE 0)
                             + ContentMatches(doc.content, k)])

\* extractRelevantExcerpt(content, query): a text that the content and the
\* query determine
ExtractRelevantExcerpt(content, query) == [excerptOf |-> content, query |-> query]

SearchResult(documentId, title, excerpt, relevanceScore) ==
    [documentId |-> documentId, title |-> title, excerpt |-> excerpt,
     relevanceScore |-> relevanceScore]

\* r goes after the results whose score is not lower: the sort is stable
RECURSIVE InsertByScore(_, _)
InsertByScore(r, sorted) ==
    IF sorted = <<>> THEN <<r>>
    ELSE IF Head(sorted).relevanceScore >= r.relevanceScore
         THEN <<Head(sorted)>> \o InsertByScore(r, Tail(sorted))
         ELSE <<r>> \o sorted

\* results.sort((a, b) => b.relevanceScore - a.relevanceScore)
RECURSIVE SortByScore(_)
SortByScore(rs) ==
    IF rs = <<>> THEN <<>>
    ELSE InsertByScore(rs[Len(rs)], SortByScore(SubSeq(rs, 1, Len(rs) - 1)))

\* results.slice(0, maxResults), for maxResults >= 0
Slice(rs, maxResults) == SubSeq(rs, 1, Min(maxResults, Len(rs)))

\* basicKeywordSearch throws when a RegExp cannot be built: the first document
\* is scored with every expanded keyword
KeywordSearchThrows(query, docs) ==
    /\ docs # <<>>
    /\ ExpandedKeywords(query) \cap InvalidPatterns # {}

\* basicKeywordSearch(query, documents, maxResults), when it returns
BasicKeywordSearch(query, docs, maxResults) ==
    LET scored == [i \in 1..Len(docs) |->
                      SearchResult(docs[i].id, docs[i].title,
                                   ExtractRelevantExcerpt(docs[i].content, query),
                                   KeywordScore(docs[i], query))]
    IN  Slice(SortByScore(SelectSeq(scored, LAMBDA r : r.relevanceScore > 0)), maxResults)

RECURSIVE DotProduct(_, _)
DotProduct(vecA, vecB) ==
    IF vecA = <<>> THEN 0
    ELSE Head(vecA) * Head(vecB) + DotProduct(Tail(vecA), Tail(vecB))

\* Math.sqrt, for the squares the vectors of the model have as norms
Sqrt(n) == CHOOSE r \in 0..n : r * r = n

\* calculateCosineSimilarity(vecA, vecB) * 100; the vectors of the model make
\* the quotient a whole number
CalculateCosineSimilarity(vecA, vecB) ==
    IF vecA = NoEmbedding \/ vecB = NoEmbedding THEN 0
    ELSE IF Len(vecA) # Len(vecB) THEN 0
    ELSE LET normA == Sqrt(DotProduct(vecA, vecA))
             normB == Sqrt(DotProduct(vecB, vecB))
         IN  IF normA = 0 \/ normB = 0 THEN 0
             ELSE (100 * DotProduct(vecA, vecB)) \div (normA * normB)

\* a filter that keeps the results at the floor
AtOrAboveFloor(r) == r.relevanceScore >= RelevanceFloor

\* result.relevanceScore > 20
AboveFloor(r) == r.relevanceScore > RelevanceFloor

\* semanticSearch(query, maxResults) after the query embedding has come: the
\* entries of vectorStore whose document knowledgeBase.find() finds, scored
SemanticSearch(query, queryEmbedding, maxResults, docs, entries) ==
    LET found == SelectSeq(entries, LAMBDA e : FindIndex(docs, e.documentId) # 0)
        scoredResults ==
            [i \in 1..Len(found) |->
                LET doc == docs[FindIndex(docs, found[i].documentId)]
                IN  SearchResult(found[i].documentId, doc.title,
                                 ExtractRelevantExcerpt(doc.content, query),
                                 CalculateCosineSimilarity(queryEmbedding,
                                                           found[i].embedding))]
    IN  Slice(SortByScore(SelectSeq(scoredResults, AboveFloor)), maxResults)

\* the vectors the embedding service gives to queries and has given to documents
QueryVectors == {<<1, 0, 0, 0>>, <<3, 4, 0, 0>>}
DocumentVectors ==
    {<<1, 0, 0, 0>>, <<4, 3, 0, 0>>, <<1, 2, 2, 4>>, <<-1, 0, 0, 0>>, <<0, 0, 0, 0>>,
     <<1, 0>>}

\* the documents of three small files
SearchFiles ==
    [f \in {"fees.md", "policy-rules.md", "hours.md"} |->
        [text |-> CASE f = "fees.md" -> <<Para("a late fee applies.", 19)>>
                    [] f = "policy-rules.md" ->
                           <<Para("our policy: each rule is a policy.", 34)>>
                    [] f = "hours.md" -> <<Para("open nine to five, free parking.", 32)>>,
         json |-> NotJson]]

SearchTitle(f) ==
    CASE f = "fees.md" -> "fees"
      [] f = "policy-rules.md" -> "policy-rules"
      [] f = "hours.md" -> "hours"

SearchOrder == <<"fees.md", "hours.md", "policy-rules.md">>

\* the Document Store of a run over SearchFiles in which the requests for the
\* documents of failed have failed and the others have returned emb
SearchStore(emb, failed) ==
    [i \in 1..Len(SearchOrder) |->
        LET f == SearchOrder[i]
            doc == Document(f, SearchTitle(f), SearchFiles[f].text, Metadata("", Null, -1))
        IN  [doc EXCEPT !.metadata.embedding =
                            IF f \in failed THEN NoEmbedding ELSE emb[f]]]

SearchStores ==
    {SearchStore(emb, failed) :
        emb \in [DOMAIN SearchFiles -> DocumentVectors],
        failed \in SUBSET DOMAIN SearchFiles}

\* an entry of a snapshot for a document the snapshot does not hold
DanglingEntry == [documentId |-> "gone.md", embedding |-> <<1, 0, 0, 0>>]

\* the server after a restore of the snapshot (docs, entries)
Restored(dir, docs, entries) ==
    /\ files = dir
    /\ snapshot = SnapshotText(docs, entries)
    /\ arrays = [a \in ArrayIds |-> IF a = ArrayOrder[1] THEN docs ELSE <<>>]
    /\ knowledgeBase = ArrayOrder[1]
    /\ vectorStore = entries
    /\ watching = TRUE
    /\ changes = 0
    /\ embedFailures = 0
    /\ persistFailures = 0
    /\ loadPc = [l \in Loads |-> "idle"]
    /\ contentFiles = [l \in Loads |-> <<>>]
    /\ fileIdx = [l \in Loads |-> 0]
    /\ documents = [l \in Loads |-> NoArray]
    /\ needing = [l \in Loads |-> <<>>]
    /\ batchStart = [l \in Loads |-> 0]
    /\ pending = [l \in Loads |-> {}]
    /\ persistData = [l \in Loads |-> NoSnapshot]
    /\ batchSize = BatchSize
    /\ afterLastRun = [returned |-> TRUE, store |-> docs]
    /\ issued = [l \in Loads |-> NoRequests]

\* maxResults of a call; searchKB's default is 3
MaxResultsValues == {0, 1, DefaultMaxResults}

\* searchKB(args) up to the await of the query embedding
SearchKB(query, maxResults) ==
    /\ call = NoCall
    /\ call' = [fn |-> "searchKB", query |-> query, maxResults |-> maxResults]
    /\ UNCHANGED <<result, calendar, chatVars, kbVars>>

\* embeddings.create resolves: semanticSearch ranks, searchKB returns {results}
QueryEmbeddingReturns(queryEmbedding) ==
    /\ call.fn = "searchKB"
    /\ result = NoResult
    /\ result' = [kind |-> "returned", path |-> "semantic",
                  queryEmbedding |-> queryEmbedding,
                  results |-> SemanticSearch(call.query, queryEmbedding, call.maxResults,
                                             Store, vectorStore)]
    /\ UNCHANGED <<call, calendar, chatVars, kbVars>>

\* embeddings.create rejects: semanticSearch rethrows, the catch of searchKB
\* runs basicKeywordSearch over knowledgeBase, and what that throws leaves searchKB
QueryEmbeddingFails ==
    /\ call.fn = "searchKB"
    /\ result = NoResult
    /\ result' = IF KeywordSearchThrows(call.query, Store)
                 THEN [kind |-> "threw", path |-> "keyword",
                       queryEmbedding |-> NoEmbedding, results |-> <<>>]
                 ELSE [kind |-> "returned", path |-> "keyword",
                       queryEmbedding |-> NoEmbedding,
                       results |-> BasicKeywordSearch(call.query, Store, call.maxResults)]
    /\ UNCHANGED <<call, calendar, chatVars, kbVars>>

InitSearch ==
    /\ InitChat
    /\ InitFn
    /\ \E docs \in SearchStores \cup {<<>>}, dangling \in BOOLEAN :
          Restored(IF docs = <<>> THEN <<>> ELSE SearchFiles,
                   docs,
                   (IF dangling THEN <<DanglingEntry>> ELSE <<>>) \o VectorEntriesOf(docs))

NextSearch ==
    \/ \E query \in Queries, maxResults \in MaxResultsValues : SearchKB(query, maxResults)
    \/ \E queryEmbedding \in QueryVectors : QueryEmbeddingReturns(queryEmbedding)
    \/ QueryEmbeddingFails

SpecSearch == InitSearch /\ [][NextSearch]_vars

(***************************************************************************)
(* extractRelevantExcerpt by lengths. A content is the sentences that      *)
(* /[^.!?]+[.!?]+/g matches in it, each with its length and the number of  *)
(* expanded query words it includes, and the characters after the last     *)
(* terminator, which no match covers.                                      *)
(***************************************************************************)
Max(a, b) == IF a > b THEN a ELSE b

Sentence(len, matches) == [len |-> len, matches |-> matches]

\* content.length
ContentLength(content) ==
    LET RECURSIVE Sum(_)
        Sum(i) == IF i > Len(content.sentences) THEN 0
                  ELSE content.sentences[i].len + Sum(i + 1)
    IN  Sum(1) + content.rest

\* sentenceScores.indexOf(Math.max(...sentenceScores)), from 1
BestSentenceIndex(sentences) ==
    CHOOSE i \in 1..Len(sentences) :
        /\ \A j \in 1..Len(sentences) : sentences[j].matches <= sentences[i].matches
        /\ \A j \in 1..(i - 1) : sentences[j].matches < sentences[i].matches

\* s.substring(0, n).length for a string of length len
SubstringLength(len, n) == Max(0, Min(len, n))

\* the length of extractRelevantExcerpt(content, query, maxLength) and the
\* path it took
Excerpt(content, maxLength) ==
    IF content.sentences = <<>>
    THEN [path |-> "fallback",
          length |-> SubstringLength(ContentLength(content), maxLength)
                         + (IF ContentLength(content) > maxLength
                            THEN EllipsisLength ELSE 0)]
    ELSE LET best == BestSentenceIndex(content.sentences)
             startIdx == Max(1, best - ContextSize)
             endIdx == Min(Len(content.sentences), best + ContextSize)
             window == SubSeq(content.sentences, startIdx, endIdx)
             joined == ContentLength([sentences |-> window, rest |-> 0])
                           + (Len(window) - 1)
         IN  [path |-> "sentences",
              length |-> IF joined > maxLength
                         THEN SubstringLength(joined, maxLength - EllipsisLength)
                                  + EllipsisLength
                         ELSE joined]

SentenceLengths == {40, 150}
MatchCounts == {0, 1}
RestLengths == {0, 10, 350}
ExcerptMaxima == {2, 100, DefaultExcerptLength}

ExcerptContents ==
    UNION {[sentences : [1..n -> [len : SentenceLengths, matches : MatchCounts]],
            rest : RestLengths] : n \in 0..MaxSentences}

\* a call extractRelevantExcerpt(content, query, maxLength)
ExcerptCalls ==
    [fn : {"extractRelevantExcerpt"}, content : ExcerptContents, maxLength : ExcerptMaxima]

\* extractRelevantExcerpt returns
ExcerptReturns ==
    /\ call.fn = "extractRelevantExcerpt"
    /\ result = NoResult
    /\ result' = [kind |-> "returned", excerpt |-> Excerpt(call.content, call.maxLength)]
    /\ UNCHANGED <<call, calendar, chatVars, kbVars>>

InitExcerpt ==
    /\ InitChat
    /\ InitKB
    /\ call \in ExcerptCalls
    /\ result = NoResult
    /\ calendar = NoEvents

NextExcerpt == ExcerptReturns

SpecExcerpt == InitExcerpt /\ [][NextExcerpt]_vars

(***************************************************************************)
(* The knowledge handed to the first completion: chatWithBot's proactive   *)
(* search over a store that loadKnowledgeBase has built.                   *)
(***************************************************************************)

\* relevantInfo: the heading, written when the search returned results, and
\* one 'From "title":\ncontent' entry for each result whose document is in
\* knowledgeBase; the entry of a chunk takes the title of the document whose
\* id is the chunk's parentId, when knowledgeBase holds one, and the content
\* of the chunk
RelevantInfo(searchResults, docs) ==
    LET found == SelectSeq(searchResults, LAMBDA r : FindIndex(docs, r.documentId) # 0)
    IN  [heading |-> Len(searchResults) > 0,
         entries |->
            [i \in 1..Len(found) |->
                LET doc == docs[FindIndex(docs, found[i].documentId)]
                    parent == FindIndex(docs, doc.metadata.parentId)
                IN  IF doc.metadata.parentId # Null /\ parent # 0
                    THEN [documentId |-> doc.id, title |-> docs[parent].title,
                          content |-> doc.content]
                    ELSE [documentId |-> doc.id, title |-> doc.title,
                          content |-> doc.content]]]

NoRelevantInfo == [heading |-> FALSE, entries |-> <<>>]

\* the directories of the proactive search: a.md short or long enough to be
\* chunked, with or without b.json
ContextDirectories ==
    {[f \in {"a.md"} |-> c] : c \in {ShortText, LongText, LongerText}}
        \cup {[f \in {"a.md", "b.json"} |-> IF f = "a.md" THEN c ELSE JsonDoc] :
                  c \in {ShortText, LongText, LongerText}}

\* what loadKnowledgeBase pushes to knowledgeBase for the files of dir
ContextDocuments(dir) ==
    LET names == SelectSeq(ListingOrder, LAMBDA f : f \in DOMAIN dir)
        RECURSIVE From(_)
        From(i) == IF i > Len(names) THEN <<>>
                   ELSE DocumentsOfFile(names[i], dir[names[i]]) \o From(i + 1)
    IN  From(1)

ContextIds ==
    UNION {{ContextDocuments(dir)[i].id : i \in 1..Len(ContextDocuments(dir))} :
              dir \in ContextDirectories}

ContextVectors == {<<1, 0, 0, 0>>, <<4, 3, 0, 0>>, <<-1, 0, 0, 0>>}

\* the store of a run over dir whose embedding requests returned emb
ContextStore(dir, emb) ==
    LET docs == ContextDocuments(dir)
    IN  [i \in 1..Len(docs) |-> [docs[i] EXCEPT !.metadata.embedding = emb[docs[i].id]]]

ContextQueries == {"policy fee", "is it open"}

\* chatWithBot, the message looking like a question: semanticSearch(userMessage, 3)
\* up to the await of the query embedding
ContextSearch(message) ==
    /\ call = NoCall
    /\ call' = [fn |-> "semanticSearch", query |-> message, maxResults |-> DefaultMaxResults]
    /\ UNCHANGED <<result, calendar, chatVars, kbVars>>

\* embeddings.create resolves: semanticSearch returns and relevantInfo is built
ContextEmbeddingReturns(queryEmbedding) ==
    /\ call.fn = "semanticSearch"
    /\ result = NoResult
    /\ LET searchResults == SemanticSearch(call.query, queryEmbedding, call.maxResults,
                                           Store, vectorStore)
       IN  result' = [kind |-> "returned", results |-> searchResults,
                      relevantInfo |-> RelevantInfo(searchResults, Store)]
    /\ UNCHANGED <<call, calendar, chatVars, kbVars>>

\* embeddings.create rejects: semanticSearch rethrows, chatWithBot's inner
\* catch logs and relevantInfo stays ""
ContextEmbeddingFails ==
    /\ call.fn = "semanticSearch"
    /\ result = NoResult
    /\ result' = [kind |-> "threw", results |-> <<>>, relevantInfo |-> NoRelevantInfo]
    /\ UNCHANGED <<call, calendar, chatVars, kbVars>>

InitContext ==
    /\ InitChat
    /\ InitFn
    /\ \E dir \in ContextDirectories, emb \in [ContextIds -> ContextVectors] :
          Restored(dir, ContextStore(dir, emb), VectorEntriesOf(ContextStore(dir, emb)))

NextContext ==
    \/ \E message \in ContextQueries : ContextSearch(message)
    \/ \E queryEmbedding \in QueryVectors : ContextEmbeddingReturns(queryEmbedding)
    \/ ContextEmbeddingFails

SpecContext == InitContext /\ [][NextContext]_vars

\* ---------------------------------------------- numbers of the cosine
\* A number of the source is a binary floating-point number: every product,
\* sum, square root and quotient is rounded to the nearest number the format
\* holds, ties to the even mantissa. The format of the model has the structure
\* of the double but MantissaBits bits of mantissa; a number is written as the
\* integer count of the smallest positive number it holds, so that 1.0 is One.
One == Pow2(FractionBits)
LargestNumber == (Pow2(MantissaBits) - 1) * Pow2(MaxShift)
Infinity == 4 * LargestNumber
NaN == 8 * LargestNumber

Abs(x) == IF x < 0 THEN -x ELSE x
Sign(x) == IF x < 0 THEN -1 ELSE 1

\* the binade of a magnitude q: the shift t with q < 2^(MantissaBits + t)
ShiftOf(q) ==
    IF \E t \in 0..MaxShift : q < Pow2(MantissaBits + t)
    THEN CHOOSE t \in 0..MaxShift :
             /\ q < Pow2(MantissaBits + t)
             /\ \A u \in 0..(t - 1) : q >= Pow2(MantissaBits + u)
    ELSE MaxShift + 1

\* the quotient n / d >= 0, rounded
RoundQuotient(n, d) ==
    LET t == ShiftOf(n \div d)
        ulp == Pow2(t)
        m == n \div (d * ulp)
        rem == n - m * d * ulp
        up == 2 * rem > d * ulp \/ (2 * rem = d * ulp /\ m % 2 = 1)
        k == (IF up THEN m + 1 ELSE m) * ulp
    IN  IF t > MaxShift \/ k > LargestNumber THEN Infinity ELSE k

\* the largest r with r * r <= x
FloorSqrt(x) == CHOOSE r \in 0..LargestNumber : r * r <= x /\ (r + 1) * (r + 1) > x

\* the square root of x >= 0, rounded
RoundRoot(x) ==
    LET r == FloorSqrt(x)
        ulp == Pow2(ShiftOf(r))
        m == r \div ulp
        mid == (2 * m + 1) * (2 * m + 1) * ulp * ulp
        up == 4 * x > mid \/ (4 * x = mid /\ m % 2 = 1)
    IN  (IF up THEN m + 1 ELSE m) * ulp

\* a * b
Times(a, b) ==
    IF a = NaN \/ b = NaN THEN NaN
    ELSE IF Abs(a) = Infinity \/ Abs(b) = Infinity
         THEN IF a = 0 \/ b = 0 THEN NaN ELSE Sign(a) * Sign(b) * Infinity
         ELSE Sign(a) * Sign(b) * RoundQuotient(Abs(a) * Abs(b), One)

\* a + b
Plus(a, b) ==
    IF a = NaN \/ b = NaN THEN NaN
    ELSE IF Abs(a) = Infinity /\ Abs(b) = Infinity THEN (IF a = b THEN a ELSE NaN)
    ELSE IF Abs(a) = Infinity THEN a
    ELSE IF Abs(b) = Infinity THEN b
    ELSE Sign(a + b) * RoundQuotient(Abs(a + b), 1)

\* Math.sqrt(a)
SquareRoot(a) ==
    IF a = NaN \/ a < 0 THEN NaN
    ELSE IF a = Infinity THEN Infinity
    ELSE RoundRoot(a * One)

\* a / b
DividedBy(a, b) ==
    IF a = NaN \/ b = NaN THEN NaN
    ELSE IF Abs(a) = Infinity THEN (IF Abs(b) = Infinity THEN NaN ELSE Sign(a) * Sign(b) * Infinity)
    ELSE IF Abs(b) = Infinity THEN 0
    ELSE IF b = 0 THEN (IF a = 0 THEN NaN ELSE Sign(a) * Infinity)
    ELSE Sign(a) * Sign(b) * RoundQuotient(Abs(a) * One, Abs(b))

\* the sum of vecA[i] * vecB[i] the loop of calculateCosineSimilarity builds,
\* from acc and index i on
RECURSIVE SumOfProducts(_, _, _, _)
SumOfProducts(vecA, vecB, i, acc) ==
    IF i > Len(vecA) THEN acc
    ELSE SumOfProducts(vecA, vecB, i + 1, Plus(acc, Times(vecA[i], vecB[i])))

\* a similarity that divides by the square of the first norm
SimilarityByFirstNorm(vecA, vecB) ==
    IF vecA = NoEmbedding \/ vecB = NoEmbedding THEN 0
    ELSE IF Len(vecA) # Len(vecB) THEN 0
    ELSE LET normA == SquareRoot(SumOfProducts(vecA, vecA, 1, 0))
             normB == SquareRoot(SumOfProducts(vecB, vecB, 1, 0))
         IN  IF normA = 0 \/ normB = 0 THEN 0
             ELSE DividedBy(SumOfProducts(vecA, vecB, 1, 0), Times(normA, normA))

\* calculateCosineSimilarity(vecA, vecB) on the numbers of the format; a
\* vector that is absent is <<>>
Similarity(vecA, vecB) ==
    IF vecA = NoEmbedding \/ vecB = NoEmbedding THEN 0
    ELSE IF Len(vecA) # Len(vecB) THEN 0
    ELSE LET normA == SquareRoot(SumOfProducts(vecA, vecA, 1, 0))
             normB == SquareRoot(SumOfProducts(vecB, vecB, 1, 0))
         IN  IF normA = 0 \/ normB = 0 THEN 0
             ELSE DividedBy(SumOfProducts(vecA, vecB, 1, 0), Times(normA, normB))

\* components of the vectors: zero, the smallest number, one half, one, three,
\* the largest number and a negative one
Components == {0, 1, One \div 2, One, 3 * One, LargestNumber, -One}

CosineVectors ==
    {NoEmbedding} \cup [1..1 -> Components] \cup [1..2 -> Components]

\* calculateCosineSimilarity returns
CosineReturns ==
    /\ call.fn = "calculateCosineSimilarity"
    /\ result = NoResult
    /\ result' = [kind |-> "returned", value |-> Similarity(call.vecA, call.vecB),
                  swapped |-> Similarity(call.vecB, call.vecA)]
    /\ UNCHANGED <<call, calendar, chatVars, kbVars>>

InitCosine ==
    /\ InitChat
    /\ InitKB
    /\ call \in [fn : {"calculateCosineSimilarity"}, vecA : CosineVectors,
                 vecB : CosineVectors]
    /\ result = NoResult
    /\ calendar = NoEvents

NextCosine == CosineReturns

SpecCosine == InitCosine /\ [][NextCosine]_vars

\* ------------------------------------------------------------------ claims
ToolMessages(ms) == SelectSeq(ms, LAMBDA m : m.role = "tool")

HasBadArguments(r) ==
    \E i \in 1..Len(toolCalls[r]) : JsonParseThrows(toolCalls[r][i].arguments)

\* the documents a full ingestion of the directory yields, before embeddings
RECURSIVE IngestFiles(_, _)
IngestFiles(names, dir) ==
    IF names = <<>> THEN <<>>
    ELSE DocumentsOfFile(Head(names), dir[Head(names)]) \o IngestFiles(Tail(names), dir)

WithoutEmbeddings(docs) ==
    [i \in 1..Len(docs) |-> [docs[i] EXCEPT !.metadata.embedding = NoEmbedding]]

\* both stores are what a full ingestion of the directory makes them, whichever
\* embedding requests failed
StoresMatchDirectory ==
    /\ WithoutEmbeddings(Store) = IngestFiles(ContentFilesOf(files, snapshot), files)
    /\ vectorStore = VectorEntriesOf(Store)
    /\ \A i \in 1..Len(Store) :
          Store[i].metadata.embedding \in {NoEmbedding, EmbeddingOf(Store[i])}

LoadsInFlight == {l \in Loads : loadPc[l] # "idle"}

\* C1 as stated: when a reload that the watcher started returns and no other
\* load is in flight, the Document Store and the Vector Cache are those of a
\* full ingestion of the directory as it is.
C1_ReloadIsFullIngestion ==
    [][(watching /\ LoadsInFlight # {} /\ LoadsInFlight' = {}) => StoresMatchDirectory']_vars

\* C2: a turn that ends Failed returns the history it was passed, and the
\* handler then stores, for the session of the turn, exactly the history the
\* turn read from the store when it began.
C2_FailedTurnKeepsHistory ==
    /\ [](\A r \in Reqs : outcome[r] = "Failed" => updatedHistory[r] = history[r])
    /\ [][\A r \in Reqs, s \in Sessions :
            (pc[r] = "respond" /\ outcome[r] = "Failed" /\ sid[r] = s /\ pc'[r] = "idle")
                => StoredHistory(s)' = history[r]]_vars

\* a turn that failed at its second completion, after a tool call, while
\* another turn has stored to the same session
C2_Witness ==
    \E r \in Reqs :
        /\ pc[r] = "respond" /\ outcome[r] = "Failed"
        /\ Len(sent[r]) = 2 /\ Len(callLog[r]) = 1
        /\ StoredHistory(sid[r]) # history[r]

\* C3: a turn that ends Answered returns the full history it was passed followed
\* by the user message and the final assistant message, on both branches, and
\* no stored history holds a system, tool-call-request or tool-result message.
C3_AnsweredAppendsTwoMessages ==
    /\ \A r \in Reqs :
          (pc[r] = "respond" /\ outcome[r] = "Answered") =>
              updatedHistory[r] =
                  history[r] \o <<Msg("user", userMessage[r]),
                                  Msg("assistant", response[r])>>
    /\ \A s \in DOMAIN sessions : \A i \in 1..Len(sessions[s]) :
          /\ sessions[s][i].role \in {"user", "assistant"}
          /\ sessions[s][i].tool_calls = <<>>
          /\ sessions[s][i].tool_call_id = Null

\* an answered tool-call turn on a history longer than the window of the prompt
C3_Witness ==
    \E r \in Reqs :
        /\ pc[r] = "respond" /\ outcome[r] = "Answered"
        /\ Len(toolCalls[r]) = 2 /\ Len(sent[r]) = 2
        /\ Len(history[r]) > HistoryWindow + 2

\* C4 as stated: every change of a stored history extends it.
C4_AppendOnlyForEveryInterleaving ==
    [][\A s \in Sessions : IsPrefix(StoredHistory(s), StoredHistory(s)')]_vars

\* C4, amended: a stored history changes only by the write of a turn of that
\* session, and the new value extends the history that turn read when it
\* began; so the change is an append whenever the store still holds what the
\* turn read (no other turn of the session stored in between).
C4_AppendOnlyPerWriter ==
    [][\A s \in Sessions :
          StoredHistory(s)' # StoredHistory(s) =>
              \E r \in Reqs :
                  /\ pc[r] = "respond" /\ pc'[r] = "idle" /\ sid[r] = s
                  /\ IsPrefix(history[r], StoredHistory(s)')
                  /\ (StoredHistory(s) = history[r]
                        => IsPrefix(StoredHistory(s), StoredHistory(s)'))]_vars

\* two turns of a session, one after the other, have been stored
C4_Witness ==
    \E s \in DOMAIN sessions : \E n \in 0..Len(sessions[s]) :
        /\ Len(sessions[s]) = n + 4
        /\ sessions[s][n + 1].role = "user" /\ sessions[s][n + 3].role = "user"
        /\ IsPrefix(IF s = "s1" THEN SeedHistory ELSE <<>>, sessions[s])
        /\ n = Len(IF s = "s1" THEN SeedHistory ELSE <<>>)

\* C5: the second completion request holds one tool message per requested call,
\* the i-th tagged with the identifier of the i-th call; and while the
\* dispatcher runs call i, the results of calls 1..i-1, and only they, are in
\* the message list.
C5_ToolResultsInCallOrder ==
    \A r \in Reqs :
        /\ Len(sent[r]) = 2 =>
              LET tm == ToolMessages(sent[r][2].messages)
              IN  /\ Len(tm) = Len(toolCalls[r])
                  /\ \A i \in 1..Len(tm) : tm[i].tool_call_id = toolCalls[r][i].id
        /\ pc[r] = "dispatch" =>
              LET tm == ToolMessages(messages[r])
              IN  /\ Len(tm) = callIdx[r] - 1
                  /\ Len(callLog[r]) = callIdx[r] - 1
                  /\ \A i \in 1..Len(tm) : tm[i].tool_call_id = toolCalls[r][i].id

\* the second request of a turn whose two calls came with the identifiers in
\* the other order
C5_Witness ==
    \E r \in Reqs :
        /\ pc[r] = "second" /\ Len(toolCalls[r]) = 2
        /\ toolCalls[r][1].id = CallIdOf(2) /\ toolCalls[r][2].id = CallIdOf(1)

\* C6: in an answered tool-call turn the response is the content of the second
\* completion, and the second request holds, for every call whose handler
\* returned, a tool message with the JSON text of the returned value and the
\* identifier of that call.
C6_ResponseFromSecondCompletion ==
    \A r \in Reqs :
        (pc[r] = "respond" /\ outcome[r] = "Answered" /\ toolCalls[r] # <<>>) =>
            /\ Len(sent[r]) = 2 /\ Len(completions[r]) = 2
            /\ response[r] = OrEmpty(completions[r][2].content)
            /\ Len(callLog[r]) = Len(toolCalls[r])
            /\ \A i \in 1..Len(callLog[r]) :
                  ~callLog[r][i].threw =>
                      \E j \in 1..Len(sent[r][2].messages) :
                          sent[r][2].messages[j] =
                              [role |-> "tool",
                               content |-> "json:" \o callLog[r][i].value,
                               tool_call_id |-> toolCalls[r][i].id]

\* one call, its handler returned, the two completions differ in content
C6_Witness ==
    \E r \in Reqs :
        /\ pc[r] = "respond" /\ outcome[r] = "Answered"
        /\ Len(toolCalls[r]) = 1 /\ Len(callLog[r]) = 1 /\ ~callLog[r][1].threw
        /\ completions[r][1].content = "a1" /\ response[r] = "a2"

\* C7 as stated: a call whose arguments are not JSON gets an error tool message
\* like a failed dispatch, and the turn goes on to its second completion.
C7_ParseFailureIsToolFailure ==
    \A r \in Reqs :
        (pc[r] = "respond" /\ HasBadArguments(r)) =>
            /\ Len(sent[r]) = 2
            /\ Len(ToolMessages(sent[r][2].messages)) = Len(toolCalls[r])

\* C8: a dispatch that fails, by a throwing handler or an unregistered name,
\* leaves an {error: message} tool message with the identifier of its call; the
\* later calls are still dispatched and the second completion is still
\* requested unless arguments fail to parse, and the turn is Answered once the
\* second completion has returned.
C8_DispatchFailureIsToolResult ==
    \A r \in Reqs :
        /\ \A i \in 1..Len(callLog[r]) :
              callLog[r][i].threw =>
                  /\ i <= Len(ToolMessages(messages[r]))
                  /\ ToolMessages(messages[r])[i] =
                        ToolMsg(toolCalls[r][i].id,
                                "json:{error:" \o callLog[r][i].value \o "}")
        /\ (pc[r] \in {"second", "respond"} /\ toolCalls[r] # <<>> /\ ~HasBadArguments(r)) =>
              /\ Len(callLog[r]) = Len(toolCalls[r])
              /\ Len(sent[r]) = 2
        /\ (pc[r] = "respond" /\ Len(completions[r]) = 2) => outcome[r] = "Answered"

\* an answered turn whose first call named no registered function and whose
\* second call returned
C8_Witness ==
    \E r \in Reqs :
        /\ pc[r] = "respond" /\ outcome[r] = "Answered" /\ Len(callLog[r]) = 2
        /\ callLog[r][1].threw /\ callLog[r][1].name = "unknownTool"
        /\ ~callLog[r][2].threw

\* C9 as stated: at most one run of loadKnowledgeBase is in flight.
C9_OneLoadAtATime ==
    Cardinality(LoadsInFlight) <= 1

\* C10 as stated: no two documents of the Document Store have the same id.
C10_DocumentIdsUnique ==
    \A i, j \in 1..Len(Store) : i # j => Store[i].id # Store[j].id

\* C11: every entry of the Vector Cache names a document that is in the
\* Document Store, in every state: between the awaits of a rebuild, after a
\* restore of the snapshot and while two loads are in flight.
C11_VectorEntriesResolve ==
    \A i \in 1..Len(vectorStore) :
        \E j \in 1..Len(Store) : Store[j].id = vectorStore[i].documentId

\* two loads in flight over a Vector Cache that is not empty, one of them
\* past its clearing of the stores
C11_Witness ==
    /\ vectorStore # <<>>
    /\ Cardinality(LoadsInFlight) = 2
    /\ \E l \in Loads : loadPc[l] \in {"readFile", "embed", "persist"}

SnapshotUnusable ==
    \/ ~snapshot.exists
    \/ ~snapshot.parses
    \/ "knowledgeBase" \notin snapshot.fields
    \/ "vectorStore" \notin snapshot.fields

\* the indices of the documents of docs that have no embedding
Unembedded(docs) == {i \in 1..Len(docs) : docs[i].metadata.embedding = NoEmbedding}

\* C13: a load that finds the snapshot unusable clears both stores and goes on
\* to list the directory; it lists every source file, pushes the documents of
\* each, requests an embedding for every document, and reaches the write of a
\* snapshot of what it built without passing through its error handler.
C13_UnusableSnapshotRegenerates ==
    [][\A l \in Loads :
          /\ (loadPc[l] = "readSnapshot" /\ loadPc'[l] # "readSnapshot" /\ SnapshotUnusable) =>
                /\ Store' = <<>> /\ vectorStore' = <<>>
                /\ loadPc'[l] = "readdir"
          /\ (loadPc[l] = "readdir" /\ loadPc'[l] # "readdir") =>
                /\ \A f \in DOMAIN files : \E k \in 1..Len(contentFiles'[l]) :
                      contentFiles'[l][k] = f
                /\ \A k \in 1..Len(contentFiles'[l]) : contentFiles'[l][k] \in DOMAIN files
          /\ (loadPc[l] = "readFile" /\ <<loadPc[l], fileIdx[l]>> # <<loadPc'[l], fileIdx'[l]>>) =>
                LET f == contentFiles[l][fileIdx[l]]
                IN  Store' = Store \o DocumentsOfFile(f, files[f])
          /\ (loadPc[l] \in {"readdir", "readFile"} /\ loadPc'[l] = "embed") =>
                pending'[l] = {i \in Unembedded(Store') : i <= batchSize}
          /\ (loadPc[l] \in {"readdir", "readFile", "embed", "pause"}) =>
                loadPc'[l] # "idle"
          /\ (loadPc[l] # "persist" /\ loadPc'[l] = "persist") =>
                /\ WithoutEmbeddings(Store') = IngestFiles(contentFiles'[l], files)
                /\ Cardinality(Unembedded(Store')) <= embedFailures'
                /\ persistData'[l] = SnapshotText(Store', vectorStore')
          /\ (loadPc[l] = "persist" /\ loadPc'[l] = "idle"
                /\ persistFailures' = persistFailures) =>
                /\ snapshot' = persistData[l]
                /\ ~SnapshotUnusable']_vars

\* a load that found a snapshot without the field vectorStore, or one that is
\* not JSON, has rebuilt a store of two documents or more and is writing
C13_Witness ==
    \E l \in Loads :
        /\ loadPc[l] = "persist"
        /\ snapshot \in {UnparsableSnapshot, FieldlessSnapshot}
        /\ Len(Store) >= 2
        /\ persistData[l].knowledgeBase = Store

\* C14: the step of a failed embedding request leaves the documents as they
\* are and the other requests of the batch in flight, and the run goes on; a
\* request that succeeds stores its embedding; the batch after the pause holds
\* the documents still to embed; and the run reaches the write of the snapshot
\* with every document in the store, those without embedding no more than the
\* requests that failed and none of them with an entry in the Vector Cache.
C14_EmbeddingFailureIsolated ==
    [][\A l \in Loads :
          /\ (loadPc[l] = "embed" /\ pending'[l] # pending[l]
                /\ embedFailures' # embedFailures) =>
                /\ arrays'[documents[l]] = arrays[documents[l]]
                /\ \E i \in pending[l] :
                      /\ arrays[documents[l]][i].metadata.embedding = NoEmbedding
                      /\ loadPc'[l] = "embed" => pending'[l] = pending[l] \ {i}
                /\ loadPc'[l] \in {"embed", "pause", "persist"}
          /\ (loadPc[l] = "embed" /\ pending'[l] # pending[l]
                /\ embedFailures' = embedFailures) =>
                \E i \in pending[l] :
                    /\ arrays'[documents[l]][i].metadata.embedding
                          = EmbeddingOf(arrays[documents[l]][i])
                    /\ loadPc'[l] = "embed" => pending'[l] = pending[l] \ {i}
          /\ (loadPc[l] = "pause" /\ loadPc'[l] # "pause") =>
                /\ loadPc'[l] = "embed"
                /\ pending'[l] # {}
                /\ pending'[l] =
                      {i \in Unembedded(arrays[documents[l]]) :
                          /\ i > batchStart'[l]
                          /\ i <= batchStart'[l] + batchSize}
          /\ (loadPc[l] \in {"embed", "pause"}) => loadPc'[l] # "idle"
          /\ (loadPc[l] = "embed" /\ loadPc'[l] = "persist") =>
                /\ WithoutEmbeddings(Store') = WithoutEmbeddings(arrays[documents[l]])
                /\ Cardinality(Unembedded(Store')) <= embedFailures'
                /\ \A i \in Unembedded(Store') : \A k \in 1..Len(vectorStore') :
                      vectorStore'[k].documentId # Store'[i].id
                /\ \A i \in 1..Len(Store') :
                      i \notin Unembedded(Store') =>
                          \E k \in 1..Len(vectorStore') :
                              /\ vectorStore'[k].documentId = Store'[i].id
                              /\ vectorStore'[k].embedding = EmbeddingOf(Store'[i])
                /\ persistData'[l] = SnapshotText(Store', vectorStore')]_vars

\* a run in batches of SmallBatchSize is writing its snapshot: a request of
\* the first batch failed, and a document of the same batch and one of a later
\* batch have their embeddings
C14_Witness ==
    \E l \in Loads :
        /\ loadPc[l] = "persist" /\ batchSize = SmallBatchSize
        /\ Len(Store) > SmallBatchSize
        /\ \E i, j \in 1..SmallBatchSize :
              /\ i \in Unembedded(Store) /\ j \notin Unembedded(Store)
        /\ \E k \in (SmallBatchSize + 1)..Len(Store) : k \notin Unembedded(Store)
        /\ Len(vectorStore) = Len(Store) - 1

\* identifiers and contents of a store, in order
IdsAndContents(docs) ==
    [i \in 1..Len(docs) |-> [id |-> docs[i].id, content |-> docs[i].content]]

\* C20: over a directory that does not change, a run of loadKnowledgeBase that
\* follows a returned run leaves a Document Store with the identifiers and the
\* contents, in the order, that the earlier run left, whether it restored the
\* snapshot or rebuilt from the files.
C20_ReloadIdempotent ==
    [][\A l \in Loads :
          (loadPc[l] # "idle" /\ loadPc'[l] = "idle" /\ afterLastRun.returned) =>
              IdsAndContents(Store') = IdsAndContents(afterLastRun.store)]_vars

\* the first run rebuilt a store of two documents or more and failed to write
\* its snapshot; the second run rebuilt again and has returned
C20_Witness ==
    /\ afterLastRun.returned /\ changes = 1 /\ persistFailures = 1
    /\ \A l \in Loads : loadPc[l] = "idle"
    /\ SnapshotRestorable(snapshot) /\ snapshot.knowledgeBase = Store
    /\ Len(Store) >= 2

\* C18: the response of a failed turn is the one fixed apology, whichever step
\* failed (conversion, first completion, arguments of a tool call, second
\* completion) and whatever the message and the history were.
C18_FailedResponseIsFixed ==
    \A r \in Reqs :
        outcome[r] = "Failed" =>
            response[r] = "Sorry, I encountered an error processing your request."

\* a turn on the seeded session that failed on the arguments of its second
\* tool call, after a dispatch that threw
C18_Witness ==
    \E r \in Reqs :
        /\ pc[r] = "respond" /\ outcome[r] = "Failed"
        /\ Len(toolCalls[r]) = 2 /\ Len(callLog[r]) = 1 /\ callLog[r][1].threw
        /\ JsonParseThrows(toolCalls[r][2].arguments)
        /\ history[r] # <<>> /\ userMessage[r] = "what is the policy?"

\* segments.join("\n\n")
RECURSIVE JoinSegments(_)
JoinSegments(segments) ==
    IF segments = <<>> THEN <<>>
    ELSE IF Len(segments) = 1 THEN Head(segments)
    ELSE LET rest == JoinSegments(Tail(segments))
         IN  Head(segments) \o <<[Head(rest) EXCEPT !.gap = SeparatorLength]>> \o Tail(rest)

\* the paragraphs of a text that are not empty, without their separators
Paragraphs(text) ==
    LET kept == SelectSeq(text, LAMBDA p : p.len > 0)
    IN  [i \in 1..Len(kept) |-> [tag |-> kept[i].tag, len |-> kept[i].len]]

\* every paragraph of the text lies whole in one segment, and the segments
\* hold the paragraphs in their order
ParagraphsWhole(segments, text) ==
    /\ \A k \in 1..Len(segments) : Paragraphs(segments[k]) # <<>>
    /\ Paragraphs(JoinSegments(segments)) = Paragraphs(text)

\* every separator of the text is "\n\n" and no paragraph is empty
RegularText(text) ==
    \A i \in 1..Len(text) : text[i].len > 0 /\ text[i].gap = SeparatorLength

\* C19 as stated: a content within the maximum comes back as its one segment;
\* otherwise the segments joined with "\n\n" are the content, character for
\* character.
C19_SegmentsReproduceContent ==
    result.kind = "returned" =>
        IF TextLength(call.content) <= call.maxChunkLength
        THEN result.value = <<call.content>>
        ELSE /\ JoinSegments(result.value) = call.content
             /\ ParagraphsWhole(result.value, call.content)

\* C19, amended: a content within the maximum comes back as its one segment;
\* otherwise every paragraph that is not empty lies whole in one segment, in
\* the original order, and the segments joined with "\n\n" are the content
\* when all its separators are "\n\n" and it neither begins nor ends with one.
C19_SegmentsReproduceParagraphs ==
    result.kind = "returned" =>
        IF TextLength(call.content) <= call.maxChunkLength
        THEN result.value = <<call.content>>
        ELSE /\ ParagraphsWhole(result.value, call.content)
             /\ RegularText(call.content) => JoinSegments(result.value) = call.content

\* a content of three paragraphs, one separator of three characters, cut in
\* two segments or more
C19_Witness ==
    /\ result.kind = "returned"
    /\ Len(call.content) = 3 /\ Len(result.value) >= 2
    /\ \E i \in 2..3 : call.content[i].gap = SeparatorLength + 1
    /\ \E k \in 1..Len(result.value) : Len(result.value[k]) = 2

\* C15: a document without embedding that a query matches lexically is among
\* the results of searchKB for that query, whether the query embedding came or
\* not, when maxResults is at least the number of documents
C15_UnembeddedStaysRetrievable ==
    (/\ call.fn = "searchKB"
     /\ result.kind # "none"
     /\ ExpandedKeywords(call.query) \cap InvalidPatterns = {}
     /\ call.maxResults >= Len(Store))
        => \A i \in 1..Len(Store) :
               (/\ Store[i].metadata.embedding = NoEmbedding
                /\ KeywordScore(Store[i], call.query) > 0)
                   => /\ result.kind = "returned"
                      /\ \E k \in 1..Len(result.results) :
                             result.results[k].documentId = Store[i].id

\* C16: a searchKB whose query embedding request failed returns, and returns
\* the documents of the store with a positive lexical score
C16_EmbeddingFailureFallsBack ==
    (/\ call.fn = "searchKB"
     /\ result.kind # "none"
     /\ result.path = "keyword")
        => /\ result.kind = "returned"
           /\ \A k \in 1..Len(result.results) :
                  \E i \in 1..Len(Store) :
                      /\ Store[i].id = result.results[k].documentId
                      /\ result.results[k].relevanceScore = KeywordScore(Store[i], call.query)
                      /\ result.results[k].relevanceScore > 0

\* C17: the results of semanticSearch all score above 20, come in
\* non-increasing score, are at most maxResults and name documents of the store
C17_SemanticOutputShape ==
    (/\ call.fn = "searchKB"
     /\ result.kind = "returned"
     /\ result.path = "semantic")
        => LET rs == result.results
           IN  /\ \A k \in 1..Len(rs) : rs[k].relevanceScore > 20
               /\ \A k \in 1..Len(rs) : \A n \in 1..Len(rs) :
                      k < n => rs[k].relevanceScore >= rs[n].relevanceScore
               /\ Len(rs) <= call.maxResults
               /\ \A k \in 1..Len(rs) : \E i \in 1..Len(Store) : Store[i].id = rs[k].documentId

\* semanticSearch has returned one result of two that passed the floor, the
\* later entry of the vector store first; another entry scored exactly 20 and
\* another names a document the store does not hold
C17_Witness ==
    /\ call.fn = "searchKB"
    /\ result.kind = "returned"
    /\ result.path = "semantic"
    /\ call.maxResults = 1
    /\ Len(result.results) = 1
    /\ \E e \in 1..Len(vectorStore) : FindIndex(Store, vectorStore[e].documentId) = 0
    /\ \E e \in 1..Len(vectorStore) :
          /\ FindIndex(Store, vectorStore[e].documentId) # 0
          /\ CalculateCosineSimilarity(result.queryEmbedding, vectorStore[e].embedding) = 20
    /\ \E e \in 1..Len(vectorStore) : \E g \in 1..Len(vectorStore) :
          /\ e < g
          /\ FindIndex(Store, vectorStore[e].documentId) # 0
          /\ CalculateCosineSimilarity(result.queryEmbedding, vectorStore[e].embedding) > 20
          /\ CalculateCosineSimilarity(result.queryEmbedding, vectorStore[g].embedding)
                 > CalculateCosineSimilarity(result.queryEmbedding, vectorStore[e].embedding)
          /\ result.results[1].documentId = vectorStore[g].documentId


NormSquared(vec) == SumOfProducts(vec, vec, 1, 0)

GroupOf(token) ==
    UNION {{w} \cup SynonymMap[w] :
              w \in {x \in DOMAIN SynonymMap : token = x \/ token \in SynonymMap[x]}}

\* the title or the content of doc holds term
ContainsTerm(doc, term) ==
    TitleIncludes(doc.title, term) \/ ContentMatches(doc.content, term) > 0

\* C21: basicKeywordSearch with maxResults at least the number of documents
\* returns every document that holds a term of the synonym group of a query
\* token, with a score above 0; its results all score above 0 and come in
\* non-increasing score
C21_SynonymsRetrieve ==
    (/\ call.fn = "searchKB"
     /\ result.kind # "none"
     /\ result.path = "keyword"
     /\ call.maxResults >= Len(Store))
        => /\ result.kind = "returned"
           /\ \A i \in 1..Len(Store) :
                  (\E token \in Keywords(call.query) : \E term \in GroupOf(token) :
                       ContainsTerm(Store[i], term))
                      => \E k \in 1..Len(result.results) :
                             /\ result.results[k].documentId = Store[i].id
                             /\ result.results[k].relevanceScore > 0
           /\ \A k \in 1..Len(result.results) : result.results[k].relevanceScore > 0
           /\ \A k \in 1..Len(result.results) : \A n \in 1..Len(result.results) :
                  k < n => result.results[k].relevanceScore
                               >= result.results[n].relevanceScore

\* C21 for the queries whose words are patterns new RegExp accepts
C21_SynonymsRetrieveForValidPatterns ==
    (call.fn = "searchKB" /\ ExpandedKeywords(call.query) \cap InvalidPatterns = {})
        => C21_SynonymsRetrieve


\* C23: a turn whose proactive search failed has sent its first completion
\* request with the system instructions as they are, and ends Failed only
\* when a completion request was rejected or the arguments of a requested
\* call did not parse
C23_SearchFailureLeavesTurn ==
    \A r \in Reqs :
        (search[r] = "threw" /\ pc[r] # "search")
            => /\ sent[r] # <<>>
               /\ sent[r][1] = Request(ConvertAll(<<Msg("system", SystemPrompt)>>
                                           \o SliceLast(history[r], HistoryWindow)
                                           \o <<Msg("user", userMessage[r])>>),
                                       "functions", "auto")
               /\ outcome[r] = "Failed"
                      => \/ Len(completions[r]) < Len(sent[r])
                         \/ \E i \in 1..Len(toolCalls[r]) :
                                JsonParseThrows(toolCalls[r][i].arguments)

\* a turn whose proactive search failed has been answered
C23_Witness ==
    \E r \in Reqs :
        /\ search[r] = "threw"
        /\ pc[r] = "respond"
        /\ outcome[r] = "Answered"
        /\ Len(sent[r]) = 2


C27_ToolResultsFollowTheirRequest ==
    \A r \in Reqs :
        Len(sent[r]) = 2
            => LET ms == sent[r][2].messages
               IN  \A k \in 1..Len(ms) :
                       ms[k].role = "tool"
                           => \E j \in 1..(k - 1) :
                                  /\ ms[j].role = "assistant"
                                  /\ "tool_calls" \in DOMAIN ms[j]
                                  /\ \E c \in 1..Len(ms[j].tool_calls) :
                                         ms[j].tool_calls[c].id = ms[k].tool_call_id


\* C25: the handler of a request that has come in returns; it returns only
\* from the point where the turn has its outcome, Answered or Failed, which a
\* turn has there and nowhere else; every request that is over has written
\* its session once and sent one response, a request in flight none
C25_TurnsTerminate ==
    /\ (pc[1] # "idle") ~> (pc[1] = "idle")
    /\ [](\A r \in Reqs :
              /\ pc[r] = "respond" <=> outcome[r] \in {"Answered", "Failed"}
              /\ outcome[r] \in {"none", "Answered", "Failed"})
    /\ [][\A r \in Reqs : (pc[r] # "idle" /\ pc'[r] = "idle") => pc[r] = "respond"]_vars
    /\ [](/\ served.written = turns - Cardinality({r \in Reqs : pc[r] # "idle"})
          /\ served.responded = served.written)

\* a first request has been served and the turn of a second has ended Failed
C25_Witness ==
    /\ served.responded = 1
    /\ pc[1] = "respond"
    /\ outcome[1] = "Failed"
    /\ turns = 2


\* C26: in a run of generateEmbeddingsForDocuments the requests in flight
\* are at most batchSize; requests are sent only when none of the run is in
\* flight; no document gets two requests, only documents that lacked an
\* embedding at the start get one, and when the run returns each of them has
\* got one
C26_BatchesBoundRequests ==
    /\ [](\A l \in Loads :
              LET rq == issued[l].requests
                  lk == issued[l].lacking
              IN  /\ Cardinality(pending[l]) <= batchSize
                  /\ \A i \in pending[l] : \E k \in 1..Len(rq) : rq[k] = i
                  /\ \A k \in 1..Len(rq) : \A n \in 1..Len(rq) : k # n => rq[k] # rq[n]
                  /\ \A k \in 1..Len(rq) : \E n \in 1..Len(lk) : lk[n] = rq[k]
                  /\ loadPc[l] = "persist" => Len(rq) = Len(lk))
    /\ [][\A l \in Loads : issued'[l] # issued[l] => pending[l] = {}]_vars

\* a run has returned from generateEmbeddingsForDocuments after more than two
\* full batches of requests
C26_Witness ==
    \E l \in Loads :
        /\ loadPc[l] = "persist"
        /\ batchSize = SmallBatchSize
        /\ Len(issued[l].requests) > 2 * batchSize
        /\ embedFailures > 0


\* C30: the snapshot file is neither a reload trigger nor a source document. A
\* step in which persistKnowledgeBase writes or fails to write the snapshot
\* starts no run of loadKnowledgeBase; after the changes from outside the runs
\* come to an end and every run stays idle; and no document of the store has
\* the snapshot file's name as its id or as its parent.
C30_SnapshotIsNoSource ==
    /\ [][\A l \in Loads : loadPc[l] = "persist" =>
              \A k \in Loads : loadPc'[k] = "readSnapshot" => loadPc[k] = "readSnapshot"]_vars
    /\ <>[](\A l \in Loads : loadPc[l] = "idle")
    /\ [](\A i \in 1..Len(Store) :
              /\ Store[i].id # SnapshotName
              /\ "parentId" \in DOMAIN Store[i].metadata => Store[i].metadata.parentId # SnapshotName)

\* a reload has rebuilt the store from a directory holding the snapshot file
\* and written the snapshot while the watcher was installed
C30_Witness ==
    /\ watching
    /\ changes >= 1
    /\ persistFailures >= 1
    /\ \A l \in Loads : loadPc[l] = "idle"
    /\ SnapshotRestorable(snapshot)
    /\ snapshot # StaleSnapshot
    /\ snapshot.knowledgeBase = Store
    /\ Len(Store) > 0


\* C29: a search or a lookup that runs while loadKnowledgeBase is in flight
\* sees the store and the vector cache complete. searchKB and getDocument read
\* knowledgeBase and vectorStore as they stand when they run, between two
\* awaits of the load: once the server is up and a run is in flight, the store
\* is the one the last finished run left, and a store holding embeddings comes
\* with a vector cache that is not empty.
C29_ReadersSeeCompleteStores ==
    (watching /\ \E l \in Loads : loadPc[l] # "idle") =>
        /\ Store = afterLastRun.store
        /\ VectorEntriesOf(Store) # <<>> => vectorStore # <<>>

\* C28: when the proactive search returns a chunk, the knowledge handed to the
\* first completion holds the chunk's parent document, title and content, in
\* the chunk's place: the entry written for a result that is a chunk carries
\* the title and the whole content of the source file the chunk was cut from.
C28_ChunkGivesParentDocument ==
    result.kind = "returned" /\ call.fn = "semanticSearch" =>
        \A i \in 1..Len(result.relevantInfo.entries) :
            LET entry == result.relevantInfo.entries[i]
                doc == Store[FindIndex(Store, entry.documentId)]
            IN  doc.metadata.parentId # Null =>
                    /\ entry.title = StripExtension(doc.metadata.parentId)
                    /\ entry.content = files[doc.metadata.parentId].text

\* C35: in a turn with tool calls the assistant message of the first
\* completion stands once in the messages sent to the second completion: they
\* are the messages of the first request, one assistant message, then tool
\* messages only.
C35_AssistantMessageOnce ==
    \A r \in Reqs :
        Len(sent[r]) >= 2 =>
            LET first == sent[r][1].messages
                second == sent[r][2].messages
                n == Len(first)
            IN  /\ IsPrefix(first, second)
                /\ Len(second) > n
                /\ second[n + 1].role = "assistant"
                /\ \A i \in (n + 2)..Len(second) : second[i].role = "tool"

\* C34: sessions are isolated. The stored history of a session b changes only
\* in the step in which the handler of a request of b writes it, whatever else
\* is in flight, and what is written is the updatedHistory of that request; the
\* history a request of a reads is the stored history of a; and updatedHistory
\* is that history, alone or followed by the user message and the answer of the
\* turn. So a stored history holds messages of turns of its own session only.
C34_SessionsIsolated ==
    /\ [][\A b \in Sessions :
              (IF b \in DOMAIN sessions' THEN sessions'[b] ELSE <<>>) # StoredHistory(b)
                  \/ (b \in DOMAIN sessions') # (b \in DOMAIN sessions)
              => \E r \in Reqs : /\ pc[r] = "respond"
                                 /\ sid[r] = b
                                 /\ pc'[r] = "idle"
                                 /\ sessions'[b] = updatedHistory[r]]_vars
    /\ [][\A r \in Reqs :
              pc[r] = "idle" /\ pc'[r] # "idle" => history'[r] = StoredHistory(sid'[r])]_vars
    /\ [](\A r \in Reqs :
              pc[r] = "respond" =>
                  \/ updatedHistory[r] = history[r]
                  \/ /\ outcome[r] = "Answered"
                     /\ updatedHistory[r] =
                            history[r] \o <<Msg("user", userMessage[r]),
                                            Msg("assistant", response[r])>>)

\* a turn of s2 has been answered and stored while a turn of s1 is in flight
\* and the history of s1 is what it was
C34_Witness ==
    /\ served.written >= 1
    /\ "s2" \in DOMAIN sessions
    /\ sessions["s2"] # <<>>
    /\ sessions["s1"] = SeedHistory
    /\ \E r \in Reqs : pc[r] = "respond" /\ sid[r] = "s1"

\* the paragraphs of a segment that are not empty
ParagraphsIn(segment) == {i \in 1..Len(segment) : segment[i].len > 0}

\* C32: a segment returned by chunkContent(c, m) that is made of more than one
\* paragraph is no longer than m.
C32_JoinedSegmentsWithinMaximum ==
    result.kind = "returned" /\ call.fn = "chunkContent" =>
        \A k \in 1..Len(result.value) :
            Cardinality(ParagraphsIn(result.value[k])) > 1 =>
                TextLength(result.value[k]) <= call.maxChunkLength

\* C33: the excerpt extractRelevantExcerpt returns is no longer than
\* maxLength, the ellipsis included, whether it is made of sentences or is the
\* head of a content with no sentence.
C33_ExcerptWithinMaximum ==
    result.kind = "returned" /\ call.fn = "extractRelevantExcerpt" =>
        result.excerpt.length <= call.maxLength

\* a tool call of the turn has inserted or deleted an event of the calendar
MutatedCalendar(r) ==
    \E i \in 1..Len(callLog[r]) :
        /\ callLog[r][i].name \in {"createAppointment", "cancelAppointment"}
        /\ ~callLog[r][i].threw
        /\ callLog[r][i].value \in {"success:true", "cancelled"}

\* C31: a turn that ends Failed leaves no trace outside the conversation: none
\* of its tool calls has inserted or deleted a calendar event.
C31_FailedTurnLeavesCalendar ==
    \A r \in Reqs : outcome[r] = "Failed" => ~MutatedCalendar(r)

\* C36: createAppointment never creates overlapping appointments on one
\* calendar: no two events of the same calendar meet, whatever the
\* interleaving of the calls that created them.
C36_NoOverlappingAppointments ==
    \A e1, e2 \in calendar.events :
        (e1 # e2 /\ e1.calendarId = e2.calendarId) =>
            ~(e1.start < e2.end /\ e2.start < e1.end)

====
